---- MODULE Spec2Model ----
(***************************************************************************)
(* A model of the FDU-Sharing upload helper: the MDX document editor       *)
(* (scripts/utils/mdx_editor.py), the filename hint extractor and the file *)
(* manager (scripts/utils/file_manager.py, classes FileInfo and            *)
(* FileManager) and the upload workflow (scripts/easy_pr.py).              *)
(*                                                                         *)
(* Text.  A Python str is modelled as a sequence of text atoms.  An atom   *)
(* is a TLA+ string standing for one character or for one indivisible run  *)
(* of characters (a word the code searches for, such as "<Comments").  The *)
(* atoms are chosen so that a pattern of the code can occur in a text only *)
(* as the atoms that spell it.  TLA+ strings are ASCII, so a CJK character *)
(* is written as its pinyin in brackets ("[qi]" is U+671F) and an emoji as *)
(* its short name in colons.                                               *)
(* Indices are 0-based as in the source: At(s, i) is s[i] of Python.       *)
(***************************************************************************)
EXTENDS Integers, Sequences, FiniteSets, TLC

VARIABLES
    lines,      \* MDXEditor.lines: the document, a sequence of lines
    before,     \* MDXEditor.lines as it was when the last call started
    op,         \* the last editor method called ("load" after construction)
    args,       \* the arguments of the last call
    ret,        \* the value the last call returned
    rep,        \* TRUE when the last call repeated the call before it
    relative_path,  \* FileInfo.relative_path.parts, each part a text
    course_hint,    \* FileInfo.course_hint
    type_hint,      \* FileInfo.type_hint
    year_hint,      \* FileInfo.year_hint
    pc,             \* FileInfo.__init__: the next attribute to compute
    suggestion,     \* the last call of FileManager.suggest_filename
    step,           \* EasyPR: where main() and run() stand
    files,          \* the FileInfo list scan_upload_dir returns
    valid_files,    \* run(): the indices of the files that passed validate_file
    selected_files, \* run(): the indices the user selected, in list order
    calls,          \* the process_file calls made so far, one record each
    processed_files,    \* EasyPR.processed_files, as indices into files
    git_log,        \* the GitManager calls made so far
    current_branch, \* the branch the working tree is on
    pushed,         \* the new branch is on the remote
    deleted,        \* the upload files delete_file removed
    told,           \* what run() printed about the outcome
    ended_by,       \* the return or handler that ended the run
    exit_code       \* the exit status of the process, None while it runs

vars == <<lines, before, op, args, ret, rep,
          relative_path, course_hint, type_hint, year_hint, pc,
          suggestion,
          step, files, valid_files, selected_files, calls, processed_files,
          git_log, current_branch, pushed, deleted, told, ended_by, exit_code>>

editorVars == <<lines, before, op, args, ret, rep>>
hintVars == <<relative_path, course_hint, type_hint, year_hint, pc>>
managerVars == <<suggestion>>
workflowVars ==
    <<step, files, valid_files, selected_files, calls, processed_files,
      git_log, current_branch, pushed, deleted, told, ended_by, exit_code>>

\* Python's None where the code expects an index (indices are >= 0).
None == -1

\* Python's None where the code expects a str: no text is the one atom "None".
NoText == <<"None">>

\* Python's None where the code expects a resource type.
NoType == "None"

\* ------------------------------------------------------------------ text

SP == " "
NL == "\n"
DQ == "\""

\* str.isspace() of one atom.
IsSpace(c) == c \in {SP, NL, "\t"}

\* s[i] with Python's 0-based index.
At(s, i) == s[i + 1]

\* s[i:j] with 0 <= i, j <= len(s).
Slice(s, i, j) == IF j <= i THEN <<>> ELSE SubSeq(s, i + 1, j)

\* str.startswith
startswith(s, prefix) ==
    /\ Len(prefix) <= Len(s)
    /\ SubSeq(s, 1, Len(prefix)) = prefix

\* `sub in s` for strings.
contains(s, sub) ==
    \E i \in 0..(Len(s) - Len(sub)) : Slice(s, i, i + Len(sub)) = sub

\* str.strip(): drop leading and trailing whitespace.
strip(s) ==
    LET nonsp == {i \in 1..Len(s) : ~IsSpace(s[i])}
    IN  IF nonsp = {} THEN <<>>
        ELSE LET lo == CHOOSE i \in nonsp : \A j \in nonsp : i <= j
                 hi == CHOOSE i \in nonsp : \A j \in nonsp : j <= i
             IN  SubSeq(s, lo, hi)

\* str.split('\n'): always at least one piece.
RECURSIVE split(_)
split(s) ==
    LET nls == {i \in 1..Len(s) : s[i] = NL}
    IN  IF nls = {} THEN <<s>>
        ELSE LET k == CHOOSE i \in nls : \A j \in nls : i <= j
             IN  <<SubSeq(s, 1, k - 1)>> \o split(SubSeq(s, k + 1, Len(s)))

\* list.insert(pos, x) for 0 <= pos; a pos past the end appends.
insert(l, pos, x) ==
    LET p == IF pos > Len(l) THEN Len(l) ELSE pos
    IN  Slice(l, 0, p) \o <<x>> \o Slice(l, p, Len(l))

\* ------------------------------------------------------------ MDXEditor

\* The keys of SECTION_MAP (qimokaoshi is U+671F U+672B U+8003 U+8BD5, ...).
SectionTypes ==
    {"qimokaoshi", "qizhongkaoshi", "fuxiziliao", "ketangbiji",
     "zuoyexiti", "PPTkejian", "qita"}

\* SECTION_MAP: section type -> heading line.
SECTION_MAP ==
    [t \in SectionTypes |->
        CASE t = "qimokaoshi"    -> <<"##", SP, ":memo:", SP, "qimokaoshi">>
          [] t = "qizhongkaoshi" -> <<"##", SP, ":memo:", SP, "qizhongkaoshi">>
          [] t = "fuxiziliao"    -> <<"##", SP, ":books:", SP, "fuxiziliao">>
          [] t = "ketangbiji"    -> <<"##", SP, ":book:", SP, "ketangbiji">>
          [] t = "zuoyexiti"     -> <<"##", SP, ":bulb:", SP, "zuoyexiti">>
          [] t = "PPTkejian"     -> <<"##", SP, ":chart:", SP, "PPTkejian">>
          [] t = "qita"          -> <<"##", SP, ":package:", SP, "qitaziliao">>]

\* SECTION_MAP.get(section_type, SECTION_MAP['qita'])
SectionTitle(section_type) ==
    IF section_type \in SectionTypes THEN SECTION_MAP[section_type]
    ELSE SECTION_MAP["qita"]

\* The smallest and the largest member of a non-empty set of integers.
Min(S) == CHOOSE i \in S : \A j \in S : i <= j
Max(S) == CHOOSE i \in S : \A j \in S : j <= i

find_section(ls, section_title) ==
    LET hits == {i \in 0..(Len(ls) - 1) :
                    startswith(strip(At(ls, i)), section_title)}
    IN  IF hits = {} THEN None ELSE Min(hits)

_find_comments_line(ls) ==
    LET hits == {i \in 0..(Len(ls) - 1) : contains(At(ls, i), <<"<Comments">>)}
    IN  IF hits = {} THEN None ELSE Min(hits)

\* The result of a method that may change the document.
Result(ls, r) == [lines |-> ls, ret |-> r]

\* ensure_section that creates the section after the trailer line instead of
\* before it.
ensure_section_AfterTrailer(ls, section_title) ==
    LET line_num == find_section(ls, section_title)
        comments_line == _find_comments_line(ls)
        block == <<<<>>, section_title, <<>>, <<"---">>, <<>>>>
    IN  IF line_num # None THEN Result(ls, line_num)
        ELSE IF comments_line # None THEN
            Result(Slice(ls, 0, comments_line + 1) \o block
                       \o Slice(ls, comments_line + 1, Len(ls)), comments_line + 2)
        ELSE Result(ls \o block, Len(ls) + 1)

\* ensure_section with the inserted heading's index off by one in the branch
\* that inserts before the trailer.
ensure_section_ReturnsInsertPos(ls, section_title) ==
    LET line_num == find_section(ls, section_title)
        comments_line == _find_comments_line(ls)
        block == <<<<>>, section_title, <<>>, <<"---">>, <<>>>>
    IN  IF line_num # None THEN Result(ls, line_num)
        ELSE IF comments_line # None THEN
            Result(Slice(ls, 0, comments_line) \o block
                       \o Slice(ls, comments_line, Len(ls)), comments_line)
        ELSE Result(ls \o block, Len(ls) + 1)

ensure_section(ls, section_title) ==
    LET line_num == find_section(ls, section_title)
        comments_line == _find_comments_line(ls)
    IN  IF line_num # None THEN Result(ls, line_num)
        ELSE IF comments_line # None THEN
            LET insert_pos == comments_line
                l1 == insert(ls, insert_pos, <<>>)
                l2 == insert(l1, insert_pos + 1, section_title)
                l3 == insert(l2, insert_pos + 2, <<>>)
                l4 == insert(l3, insert_pos + 3, <<"---">>)
                l5 == insert(l4, insert_pos + 4, <<>>)
            IN  Result(l5, insert_pos + 1)
        ELSE
            LET l5 == ls \o <<<<>>, section_title, <<>>, <<"---">>, <<>>>>
            IN  Result(l5, Len(l5) - 4)

\* _find_next_section without its backward walk: the boundary line itself.
SkipBack_NoWalk(ls, j, start_line) == j

\* The backward walk of _find_next_section: from j down over blank lines,
\* never below start_line + 1.
RECURSIVE SkipBack(_, _, _)
SkipBack(ls, j, start_line) ==
    IF j > start_line /\ strip(At(ls, j)) = <<>>
    THEN SkipBack(ls, j - 1, start_line)
    ELSE j

\* _find_next_section that does not take a '---' line for a boundary.
_find_next_section_NoSeparator(ls, start_line) ==
    LET hits == {i \in start_line..(Len(ls) - 1) :
                    LET line == strip(At(ls, i))
                    IN  \/ startswith(line, <<"##">>)
                        \/ contains(line, <<"<Comments">>)}
    IN  IF hits = {} THEN None
        ELSE SkipBack(ls, Min(hits) - 1, start_line) + 1

\* _find_next_section that does not take a '##' line for a boundary.
_find_next_section_NoHeading(ls, start_line) ==
    LET hits == {i \in start_line..(Len(ls) - 1) :
                    LET line == strip(At(ls, i))
                    IN  \/ line = <<"---">>
                        \/ contains(line, <<"<Comments">>)}
    IN  IF hits = {} THEN None
        ELSE SkipBack(ls, Min(hits) - 1, start_line) + 1

_find_next_section(ls, start_line) ==
    LET hits == {i \in start_line..(Len(ls) - 1) :
                    LET line == strip(At(ls, i))
                    IN  \/ startswith(line, <<"##">>)
                        \/ line = <<"---">>
                        \/ contains(line, <<"<Comments">>)}
    IN  IF hits = {} THEN None
        ELSE SkipBack(ls, Min(hits) - 1, start_line) + 1

\* The forward walk that stops one line too far.
SkipBlank_OneTooFar(ls, i) ==
    Min({k \in i..Len(ls) : k = Len(ls) \/ strip(At(ls, k)) # <<>>}) + 1

\* The forward walk of add_file_download over the blank lines.
RECURSIVE SkipBlank(_, _)
SkipBlank(ls, i) ==
    IF i < Len(ls) /\ strip(At(ls, i)) = <<>> THEN SkipBlank(ls, i + 1) ELSE i

\* The f-string with the path attribute left unquoted.
FileDownloadText_Unquoted(file_name, file_path) ==
    <<"<FileDownload", SP, NL, SP, SP, "name=", DQ>> \o file_name
        \o <<DQ, SP, NL, SP, SP, "path=">> \o file_path
        \o <<SP, NL, "/>">>

\* The f-string of add_file_download.
FileDownloadText(file_name, file_path) ==
    <<"<FileDownload", SP, NL, SP, SP, "name=", DQ>> \o file_name
        \o <<DQ, SP, NL, SP, SP, "path=", DQ>> \o file_path
        \o <<DQ, SP, NL, "/>">>

\* for line in reversed(block): lines.insert(pos, line)
RECURSIVE InsertReversed(_, _, _)
InsertReversed(ls, pos, block) ==
    IF block = <<>> THEN ls
    ELSE InsertReversed(insert(ls, pos, block[Len(block)]), pos,
                        SubSeq(block, 1, Len(block) - 1))

add_file_download(ls, file_name, file_path, section_type) ==
    LET section_title == SectionTitle(section_type)
        ensured == ensure_section(ls, section_title)
        l0 == ensured.lines
        section_line == ensured.ret
        first == SkipBlank(l0, section_line + 1)
        next_section_line == _find_next_section(l0, first)
        insert_line == IF next_section_line # None THEN next_section_line
                       ELSE Len(l0)
        file_download == FileDownloadText(file_name, file_path)
        l1 == insert(l0, insert_line, <<>>)
    IN  Result(InsertReversed(l1, insert_line, split(file_download)), TRUE)

check_duplicate(ls, file_path) ==
    \E i \in 1..Len(ls) : contains(ls[i], <<"path=", DQ>> \o file_path \o <<DQ>>)

\* re.search(r'path="([^"]+)"', line): group 1 of the leftmost match, or
\* NoText when nothing matches.
PathMatch(line) ==
    LET starts == {i \in 0..(Len(line) - 4) :
                      /\ At(line, i) = "path="
                      /\ At(line, i + 1) = DQ
                      /\ At(line, i + 2) # DQ
                      /\ \E j \in (i + 3)..(Len(line) - 1) : At(line, j) = DQ}
    IN  IF starts = {} THEN NoText
        ELSE LET i == Min(starts)
                 j == Min({k \in (i + 3)..(Len(line) - 1) : At(line, k) = DQ})
             IN  Slice(line, i + 2, j)

\* The loop of get_section_files over range(i, end_line).
RECURSIVE CollectPaths(_, _, _)
CollectPaths(ls, i, end_line) ==
    IF i >= end_line THEN <<>>
    ELSE LET m == PathMatch(At(ls, i))
         IN  (IF m # NoText THEN <<m>> ELSE <<>>) \o CollectPaths(ls, i + 1, end_line)

get_section_files(ls, section_type) ==
    LET section_title == SectionTitle(section_type)
        section_line == find_section(ls, section_title)
    IN  IF section_line = None THEN <<>>
        ELSE LET next_section == _find_next_section(ls, section_line + 1)
                 end_line == IF next_section # None /\ next_section # 0
                             THEN next_section ELSE Len(ls)
             IN  CollectPaths(ls, section_line, end_line)

\* The loop that keeps one blank line of a run instead of two.
RECURSIVE FormatLoop_KeepOne(_, _, _, _)
FormatLoop_KeepOne(ls, i, empty_count, out) ==
    IF i >= Len(ls) THEN out
    ELSE IF strip(At(ls, i)) = <<>>
         THEN FormatLoop_KeepOne(ls, i + 1, empty_count + 1,
                         IF empty_count + 1 <= 1 THEN Append(out, At(ls, i)) ELSE out)
         ELSE FormatLoop_KeepOne(ls, i + 1, 0, Append(out, At(ls, i)))

\* The loop that starts counting afresh after each line it drops.
RECURSIVE FormatLoop_ResetOnDrop(_, _, _, _)
FormatLoop_ResetOnDrop(ls, i, empty_count, out) ==
    IF i >= Len(ls) THEN out
    ELSE IF strip(At(ls, i)) = <<>>
         THEN IF empty_count + 1 <= 2
              THEN FormatLoop_ResetOnDrop(ls, i + 1, empty_count + 1,
                                          Append(out, At(ls, i)))
              ELSE FormatLoop_ResetOnDrop(ls, i + 1, 0, out)
         ELSE FormatLoop_ResetOnDrop(ls, i + 1, 0, Append(out, At(ls, i)))

\* The loop of format_content: out is formatted_lines.
RECURSIVE FormatLoop(_, _, _, _)
FormatLoop(ls, i, empty_count, out) ==
    IF i >= Len(ls) THEN out
    ELSE IF strip(At(ls, i)) = <<>>
         THEN FormatLoop(ls, i + 1, empty_count + 1,
                         IF empty_count + 1 <= 2 THEN Append(out, At(ls, i)) ELSE out)
         ELSE FormatLoop(ls, i + 1, 0, Append(out, At(ls, i)))

format_content(ls) == FormatLoop(ls, 0, 0, <<>>)

\* The loop of add_bulk_downloads without its check_duplicate test.
RECURSIVE BulkLoop_NoCheck(_, _, _, _)
BulkLoop_NoCheck(ls, downloads, k, success_count) ==
    IF k > Len(downloads) THEN Result(ls, success_count)
    ELSE LET r == add_file_download(ls, downloads[k][1], downloads[k][2],
                                    downloads[k][3])
         IN  BulkLoop_NoCheck(r.lines, downloads, k + 1,
                              IF r.ret THEN success_count + 1 ELSE success_count)

\* The loop of add_bulk_downloads over downloads[k..]; a download is a tuple
\* (file_name, file_path, section_type).
RECURSIVE BulkLoop(_, _, _, _)
BulkLoop(ls, downloads, k, success_count) ==
    IF k > Len(downloads) THEN Result(ls, success_count)
    ELSE IF check_duplicate(ls, downloads[k][2])
    THEN BulkLoop(ls, downloads, k + 1, success_count)
    ELSE LET r == add_file_download(ls, downloads[k][1], downloads[k][2],
                                    downloads[k][3])
         IN  BulkLoop(r.lines, downloads, k + 1,
                      IF r.ret THEN success_count + 1 ELSE success_count)

add_bulk_downloads(ls, downloads) == BulkLoop(ls, downloads, 1, 0)

\* ------------------------------------------------------------- FileInfo
\* A filename is a sequence of one-character atoms.  The CJK characters of
\* the source are written:
\*   [xue] U+5B66   [nian] U+5E74  [di] U+7B2C    [yi1] U+4E00   [er] U+4E8C
\*   [san] U+4E09   [si] U+56DB    [qi] U+671F    [chun] U+6625  [qiu] U+79CB
\*   [xia] U+590F   [dong] U+51AC  [ji4] U+5B63   [mo] U+672B    [zhong] U+4E2D
\*   [jie1] U+9636  [duan] U+6BB5  [xing] U+6027  [xiao] U+5C0F  [ce] U+6D4B
\*   [yan] U+9A8C   [kao] U+8003   [shi] U+8BD5   [juan] U+5377  [da] U+7B54
\*   [an] U+6848    [jie3] U+89E3  [fu] U+590D    [xi] U+4E60    [bi] U+7B14
\*   [ji4b] U+8BB0  [zuo] U+4F5C   [ye] U+4E1A    [ke] U+8BFE    [jian] U+4EF6
\*   [jiang] U+8BB2 [yi4] U+4E49   [zhang] U+7AE0 [jie2] U+8282  [zong] U+603B
\*   [jie2b] U+7ED3 [shu] U+6570   [ju] U+636E    [gou] U+6784   [fen] U+5206
\*   [xi1] U+6790   [yu] U+8BED    [yan2] U+8A00  [xian] U+7EBF  [dai] U+4EE3
\*   [gai] U+6982   [lv] U+7387    [lun] U+8BBA   [suan] U+7B97  [fa] U+6CD5
\*   [she] U+8BBE   [ji1] U+8BA1   [ji1b] U+673A  [zu] U+7EC4    [cheng] U+6210
\*   [ku] U+5E93    [yin] U+5F15   [can] U+53C2   [cao] U+8349   [gao] U+7A3F
\*   [qi2] U+5176   [ta] U+4ED6    [zi] U+8D44    [liao] U+6599  [tang] U+5802
\*   [ti] U+9898    [wen] U+6587   [bu] U+4E0D    [cun] U+5B58   [zai] U+5728
\*   [guo] U+8FC7   [chao] U+8D85  [zhi] U+5236   [chi] U+6301   [de] U+7684
\*   [ge] U+683C    [shi4] U+5F0F  [zhi2] U+652F  [xian4] U+9650
\*   [da4] U+5927
\* and "FW(" and "FW)" are the full-width parentheses U+FF08 and U+FF09,
\* "FW," the full-width comma U+FF0C, "RN1".."RN5" the Roman numerals
\* U+2160..U+2164.

\* [一-龥]
CJK ==
    {"[xue]", "[nian]", "[di]", "[yi1]", "[er]", "[san]", "[si]", "[qi]",
     "[chun]", "[qiu]", "[xia]", "[dong]", "[ji4]", "[mo]", "[zhong]",
     "[jie1]", "[duan]", "[xing]", "[xiao]", "[ce]", "[yan]", "[kao]",
     "[shi]", "[juan]", "[da]", "[an]", "[jie3]", "[fu]", "[xi]", "[bi]",
     "[ji4b]", "[zuo]", "[ye]", "[ke]", "[jian]", "[jiang]", "[yi4]",
     "[zhang]", "[jie2]", "[zong]", "[jie2b]", "[shu]", "[ju]", "[gou]",
     "[fen]", "[xi1]", "[yu]", "[yan2]", "[xian]", "[dai]", "[gai]", "[lv]",
     "[lun]", "[suan]", "[fa]", "[she]", "[ji1]", "[ji1b]", "[zu]",
     "[cheng]", "[ku]", "[yin]", "[can]", "[cao]", "[gao]", "[qi2]", "[ta]",
     "[zi]", "[liao]", "[tang]", "[ti]", "[wen]", "[bu]", "[cun]", "[zai]",
     "[guo]", "[chao]", "[zhi]", "[chi]", "[de]", "[ge]", "[shi4]", "[zhi2]",
     "[xian4]", "[da4]"}

\* [0-9]
Digits == {"0", "1", "2", "3", "4", "5", "6", "7", "8", "9"}

Lowercase ==
    {"a", "b", "c", "d", "e", "f", "g", "h", "i", "j", "k", "l", "m", "n",
     "o", "p", "q", "r", "s", "t", "u", "v", "w", "x", "y", "z"}

Uppercase ==
    {"A", "B", "C", "D", "E", "F", "G", "H", "I", "J", "K", "L", "M", "N",
     "O", "P", "Q", "R", "S", "T", "U", "V", "W", "X", "Y", "Z"}

\* [A-Za-z]
Letters == Lowercase \cup Uppercase

RomanNumerals == {"RN1", "RN2", "RN3", "RN4", "RN5"}

\* [-_]
Separators == {"-", "_"}

\* str.lower() of one character.
LowerChar(c) ==
    CASE c = "A" -> "a" [] c = "B" -> "b" [] c = "C" -> "c" [] c = "D" -> "d"
      [] c = "E" -> "e" [] c = "F" -> "f" [] c = "G" -> "g" [] c = "H" -> "h"
      [] c = "I" -> "i" [] c = "J" -> "j" [] c = "K" -> "k" [] c = "L" -> "l"
      [] c = "M" -> "m" [] c = "N" -> "n" [] c = "O" -> "o" [] c = "P" -> "p"
      [] c = "Q" -> "q" [] c = "R" -> "r" [] c = "S" -> "s" [] c = "T" -> "t"
      [] c = "U" -> "u" [] c = "V" -> "v" [] c = "W" -> "w" [] c = "X" -> "x"
      [] c = "Y" -> "y" [] c = "Z" -> "z" [] OTHER -> c

\* str.lower()
lower(s) == [i \in 1..Len(s) |-> LowerChar(s[i])]

\* The word w stands in s at index i.
HasAt(s, i, w) == i + Len(w) <= Len(s) /\ Slice(s, i, i + Len(w)) = w

\* The character of s at index i is in the class cls.
ClassAt(s, i, cls) == i < Len(s) /\ At(s, i) \in cls

\* An optional character of the class cls at index i: 1 when there, else 0.
Opt(s, i, cls) == IF ClassAt(s, i, cls) THEN 1 ELSE 0

\* An optional word w at index i: its length when there, else 0.
OptWord(s, i, w) == IF HasAt(s, i, w) THEN Len(w) ELSE 0

\* The length of the first word of the alternation ws (a sequence of words)
\* that stands in s at index i, 0 when none does.
RECURSIVE Alt(_, _, _)
Alt(s, i, ws) ==
    IF ws = <<>> THEN 0
    ELSE IF HasAt(s, i, Head(ws)) THEN Len(Head(ws))
    ELSE Alt(s, i, Tail(ws))

\* re.sub(pattern, '', s) from index i on, where mlen[j] is the length of the
\* pattern's match at index j (0: none): matches are taken leftmost first and
\* do not overlap.
RECURSIVE Remove(_, _, _)
Remove(s, mlen, i) ==
    IF i >= Len(s) THEN <<>>
    ELSE IF mlen[i] > 0 THEN Remove(s, mlen, i + mlen[i])
    ELSE <<At(s, i)>> \o Remove(s, mlen, i + 1)

\* r'\d{4}-\d{4}[xue][nian]'
MatchYearRange(s, i) ==
    IF /\ i + 11 <= Len(s)
       /\ \A k \in 0..3 : At(s, i + k) \in Digits /\ At(s, i + 5 + k) \in Digits
       /\ At(s, i + 4) = "-"
       /\ HasAt(s, i + 9, <<"[xue]", "[nian]">>)
    THEN 11 ELSE 0

\* r'[di][yi1 er san si][xue][qi][-_]?'
MatchOrdinalTerm(s, i) ==
    IF /\ HasAt(s, i, <<"[di]">>)
       /\ ClassAt(s, i + 1, {"[yi1]", "[er]", "[san]", "[si]"})
       /\ HasAt(s, i + 2, <<"[xue]", "[qi]">>)
    THEN 4 + Opt(s, i + 4, Separators) ELSE 0

\* r'[chun qiu xia dong][ji4]?[xue][qi][-_]?'
MatchSeasonTerm(s, i) ==
    IF ClassAt(s, i, {"[chun]", "[qiu]", "[xia]", "[dong]"})
    THEN LET n == 1 + Opt(s, i + 1, {"[ji4]"})
         IN  IF HasAt(s, i + n, <<"[xue]", "[qi]">>)
             THEN n + 2 + Opt(s, i + n + 2, Separators) ELSE 0
    ELSE 0

\* r'20\d{2}[nian]?'
MatchYear(s, i) ==
    IF /\ HasAt(s, i, <<"2", "0">>)
       /\ ClassAt(s, i + 2, Digits)
       /\ ClassAt(s, i + 3, Digits)
    THEN 4 + Opt(s, i + 4, {"[nian]"}) ELSE 0

\* r'([qi][mo]|[qi][zhong]|[jie1][duan][xing]|[xiao][ce]|[ce][yan])([kao][shi])?[-_]?'
MatchExamWord(s, i) ==
    LET w == Alt(s, i, << <<"[qi]", "[mo]">>, <<"[qi]", "[zhong]">>,
                          <<"[jie1]", "[duan]", "[xing]">>,
                          <<"[xiao]", "[ce]">>, <<"[ce]", "[yan]">> >>)
        n == w + OptWord(s, i + w, <<"[kao]", "[shi]">>)
    IN  IF w = 0 THEN 0 ELSE n + Opt(s, i + n, Separators)

\* r'([shi][juan]|[da][an]|[jie3][da]|[fu][xi]|[bi][ji4b]|[zuo][ye]|[ke][jian]|[jiang][yi4])[-_]?'
MatchMaterialWord(s, i) ==
    LET w == Alt(s, i, << <<"[shi]", "[juan]">>, <<"[da]", "[an]">>,
                          <<"[jie3]", "[da]">>, <<"[fu]", "[xi]">>,
                          <<"[bi]", "[ji4b]">>, <<"[zuo]", "[ye]">>,
                          <<"[ke]", "[jian]">>, <<"[jiang]", "[yi4]">> >>)
    IN  IF w = 0 THEN 0 ELSE w + Opt(s, i + w, Separators)

\* r'(A|B|C)[juan]?[-_]?'
MatchPaperLetter(s, i) ==
    IF ClassAt(s, i, {"A", "B", "C"})
    THEN LET n == 1 + Opt(s, i + 1, {"[juan]"})
         IN  n + Opt(s, i + n, Separators)
    ELSE 0

\* r'[FW( (].*?[FW) )]': to the nearest closing parenthesis, no line break
\* in between.
MatchParenthesis(s, i) ==
    IF ClassAt(s, i, {"FW(", "("})
    THEN LET closes == {j \in (i + 1)..(Len(s) - 1) :
                           /\ At(s, j) \in {"FW)", ")"}
                           /\ \A k \in (i + 1)..(j - 1) : At(s, k) # NL}
         IN  IF closes = {} THEN 0 ELSE Min(closes) - i + 1
    ELSE 0

\* re.sub(pattern, '', s) for each pattern of _guess_course.
sub_YearRange(s) == Remove(s, [i \in 0..(Len(s) - 1) |-> MatchYearRange(s, i)], 0)
sub_OrdinalTerm(s) == Remove(s, [i \in 0..(Len(s) - 1) |-> MatchOrdinalTerm(s, i)], 0)
sub_SeasonTerm(s) == Remove(s, [i \in 0..(Len(s) - 1) |-> MatchSeasonTerm(s, i)], 0)
sub_Year(s) == Remove(s, [i \in 0..(Len(s) - 1) |-> MatchYear(s, i)], 0)
sub_ExamWord(s) == Remove(s, [i \in 0..(Len(s) - 1) |-> MatchExamWord(s, i)], 0)
sub_MaterialWord(s) == Remove(s, [i \in 0..(Len(s) - 1) |-> MatchMaterialWord(s, i)], 0)
sub_PaperLetter(s) == Remove(s, [i \in 0..(Len(s) - 1) |-> MatchPaperLetter(s, i)], 0)
sub_Parenthesis(s) == Remove(s, [i \in 0..(Len(s) - 1) |-> MatchParenthesis(s, i)], 0)

\* [-_\s]
IsTrim(c) == c \in Separators \/ IsSpace(c)

\* re.sub(r'^[-_\s]+', '', s) and then re.sub(r'[-_\s]+$', '', s)
TrimSeparators(s) ==
    LET keep == {i \in 1..Len(s) : ~IsTrim(s[i])}
    IN  IF keep = {} THEN <<>> ELSE SubSeq(s, Min(keep), Max(keep))

\* The end (exclusive) of the run of characters of the class cls from i on.
RECURSIVE RunEnd(_, _, _)
RunEnd(s, i, cls) ==
    IF ClassAt(s, i, cls) THEN RunEnd(s, i + 1, cls) ELSE i

\* re.search(r'([CJK A-Za-z][A-Za-z CJK 0-9 RN1-RN5]*)', s): group 1, or
\* NoText when nothing matches.
CourseToken(s) ==
    LET starts == {i \in 0..(Len(s) - 1) : At(s, i) \in CJK \cup Letters}
    IN  IF starts = {} THEN NoText
        ELSE LET i == Min(starts)
             IN  Slice(s, i, RunEnd(s, i + 1,
                     Letters \cup CJK \cup Digits \cup RomanNumerals))

\* exclude_words of _guess_course.
exclude_words ==
    { <<"[shi]", "[juan]">>, <<"[da]", "[an]">>, <<"[jie3]", "[da]">>,
      <<"[fu]", "[xi]">>, <<"[bi]", "[ji4b]">>, <<"[zuo]", "[ye]">>,
      <<"[di]">>, <<"[zhang]">>, <<"[jie2]">> }

\* The last step of _guess_course: the matched candidate, trimmed, is the
\* hint unless it is empty or holds one of exclude_words.
AcceptCourse_NoExclude(match) ==
    IF match # NoText /\ strip(match) # <<>> THEN strip(match) ELSE NoText

AcceptCourse(match) ==
    IF match # NoText
    THEN LET hint == strip(match)
         IN  IF hint # <<>> /\ ~\E w \in exclude_words : contains(hint, w)
             THEN hint ELSE NoText
    ELSE NoText

\* The part of _guess_course that infers the course from the filename.
CourseFromName(name) ==
    LET n1 == sub_YearRange(name)
        n2 == sub_OrdinalTerm(n1)
        n3 == sub_SeasonTerm(n2)
        n4 == sub_Year(n3)
        n5 == sub_ExamWord(n4)
        n6 == sub_MaterialWord(n5)
        n7 == sub_PaperLetter(n6)
        n8 == sub_Parenthesis(n7)
        n9 == TrimSeparators(n8)
    IN  AcceptCourse(CourseToken(n9))

\* _guess_course that takes the file's own directory for the course.
_guess_course_ParentDir(parts) ==
    IF Len(parts) > 1 THEN parts[Len(parts) - 1]
    ELSE CourseFromName(parts[Len(parts)])

\* FileInfo._guess_course: parts is relative_path.parts, its last part the
\* file's name.
_guess_course(parts) ==
    IF Len(parts) > 1 THEN parts[1] ELSE CourseFromName(parts[Len(parts)])

\* The conditions of the branches of _guess_type, in the order of the source.
IsFinal(name) ==
    \/ contains(name, <<"[qi]", "[mo]">>)
    \/ contains(lower(name), <<"f", "i", "n", "a", "l">>)

IsMidterm(name) ==
    \/ contains(name, <<"[qi]", "[zhong]">>)
    \/ contains(lower(name), <<"m", "i", "d", "t", "e", "r", "m">>)
    \/ contains(name, <<"[jie1]", "[duan]", "[xing]", "[kao]", "[shi]">>)
    \/ contains(name, <<"[duan]", "[kao]">>)

IsQuiz(name) ==
    \/ contains(name, <<"[xiao]", "[ce]">>)
    \/ contains(lower(name), <<"q", "u", "i", "z">>)
    \/ contains(name, <<"[ce]", "[yan]">>)

IsReview(name) ==
    \/ contains(name, <<"[fu]", "[xi]">>)
    \/ contains(lower(name), <<"r", "e", "v", "i", "e", "w">>)
    \/ contains(name, <<"[zong]", "[jie2b]">>)

IsNotes(name) ==
    \/ contains(name, <<"[bi]", "[ji4b]">>)
    \/ contains(lower(name), <<"n", "o", "t", "e">>)

IsHomework(name) ==
    \/ contains(name, <<"[zuo]", "[ye]">>)
    \/ contains(lower(name), <<"h", "o", "m", "e", "w", "o", "r", "k">>)
    \/ contains(lower(name), <<"h", "w">>)

IsSlides(name) ==
    \/ contains(lower(name), <<"p", "p", "t">>)
    \/ contains(name, <<"[ke]", "[jian]">>)
    \/ contains(name, <<"[jiang]", "[yi4]">>)

IsAnswer(name) ==
    \/ contains(name, <<"[da]", "[an]">>)
    \/ contains(name, <<"[jie3]", "[da]">>)
    \/ contains(lower(name), <<"s", "o", "l", "u", "t", "i", "o", "n">>)
    \/ contains(lower(name), <<"a", "n", "s", "w", "e", "r">>)

\* The branch of _guess_type for an answer: which exam it is the answer of.
AnswerType(name) ==
    IF contains(name, <<"[qi]", "[mo]">>) THEN "qimokaoshi"
    ELSE IF \/ contains(name, <<"[qi]", "[zhong]">>)
            \/ contains(name, <<"[jie1]", "[duan]">>)
         THEN "qizhongkaoshi"
    ELSE "qita"

\* _guess_type with the notes branch tried before every other.
_guess_type_NotesFirst(name) ==
    IF IsNotes(name) THEN "ketangbiji"
    ELSE IF IsFinal(name) THEN "qimokaoshi"
    ELSE IF IsMidterm(name) THEN "qizhongkaoshi"
    ELSE IF IsQuiz(name) THEN "qizhongkaoshi"
    ELSE IF IsReview(name) THEN "fuxiziliao"
    ELSE IF IsHomework(name) THEN "zuoyexiti"
    ELSE IF IsSlides(name) THEN "PPTkejian"
    ELSE IF IsAnswer(name) THEN AnswerType(name)
    ELSE NoType

\* FileInfo._guess_type
_guess_type(name) ==
    IF IsFinal(name) THEN "qimokaoshi"
    ELSE IF IsMidterm(name) THEN "qizhongkaoshi"
    ELSE IF IsQuiz(name) THEN "qizhongkaoshi"
    ELSE IF IsReview(name) THEN "fuxiziliao"
    ELSE IF IsNotes(name) THEN "ketangbiji"
    ELSE IF IsHomework(name) THEN "zuoyexiti"
    ELSE IF IsSlides(name) THEN "PPTkejian"
    ELSE IF IsAnswer(name) THEN AnswerType(name)
    ELSE NoType

\* r'(20\d{2})-20\d{2}[xue][nian]' at index i.
MatchYearRange20(s, i) ==
    /\ MatchYear(s, i) > 0
    /\ HasAt(s, i + 4, <<"-">>)
    /\ MatchYear(s, i + 5) > 0
    /\ HasAt(s, i + 9, <<"[xue]", "[nian]">>)

\* FileInfo._guess_year
_guess_year(name) ==
    LET ranges == {i \in 0..(Len(name) - 1) : MatchYearRange20(name, i)}
        years == {i \in 0..(Len(name) - 1) : MatchYear(name, i) > 0}
    IN  IF ranges # {} THEN Slice(name, Min(ranges), Min(ranges) + 4)
        ELSE IF years # {} THEN Slice(name, Min(years), Min(years) + 4)
        ELSE NoText


\* ----------------------------------------------------- the editor at work

\* The longest document MDXEditor.load reads, in lines.
MaxLines == 3

\* The lines a loaded document is made of: an empty line, a blank line, the
\* heading of the final-exam section, the indented heading of the midterm
\* section, a separator, the comments trailer and the path line of an entry.
LoadedLines ==
    { <<>>,
      <<SP>>,
      SECTION_MAP["qimokaoshi"],
      <<SP>> \o SECTION_MAP["qizhongkaoshi"],
      <<"---">>,
      <<"<Comments", SP, "/>">>,
      <<SP, SP, "path=", DQ, "a", DQ, SP>> }

\* Longer documents, laid out as the course pages are: a section with one
\* entry line and blank lines after it, closed by a separator, by the
\* trailer or by the next heading, and the last section of a page that ends
\* with a line break.
SectionDocuments ==
    { << SECTION_MAP["qimokaoshi"], <<SP, SP, "path=", DQ, "a", DQ, SP>>, <<>>,
         <<"---">> >>,
      << SECTION_MAP["qimokaoshi"], <<>>, <<SP, SP, "path=", DQ, "a", DQ, SP>>,
         <<>>, <<SP>>, <<"<Comments", SP, "/>">> >>,
      << SECTION_MAP["qimokaoshi"], <<SP, SP, "path=", DQ, "a", DQ, SP>>, <<>>,
         <<SP>> \o SECTION_MAP["qizhongkaoshi"] >>,
      << SECTION_MAP["qimokaoshi"], <<>>, <<SP, SP, "path=", DQ, "a", DQ, SP>>,
         <<>> >> }

\* The documents load() yields: content.split('\n') has at least one line.
Documents ==
    UNION {[1..n -> LoadedLines] : n \in 1..MaxLines} \cup SectionDocuments

\* The display names add_file_download is called with: a plain name, a name
\* with a line break followed by the midterm heading, and a name that holds
\* a path attribute.
FileNames ==
    { <<"n">>,
      <<"n", NL>> \o SECTION_MAP["qizhongkaoshi"],
      <<"path=", DQ, "x">> }

\* The file paths: one the loaded documents may already hold, a new one, the
\* empty path and a path with a line break.
FilePaths == { <<"a">>, <<"b">>, <<>>, <<"b", NL, "c">> }

\* The longest batch add_bulk_downloads is called with.
MaxBatch == 2

\* The downloads of a batch: a path the loaded documents may hold, a new
\* path for two different sections, a path with a line break, and a display
\* name that spells the path attribute of another download.
BulkItems ==
    { << <<"n">>, <<"a">>, "qimokaoshi" >>,
      << <<"n">>, <<"b">>, "qizhongkaoshi" >>,
      << <<"m">>, <<"b">>, "unknown" >>,
      << <<"n">>, <<"b", NL, "c">>, "qimokaoshi" >>,
      << <<"path=", DQ, "b">>, <<"d">>, "qimokaoshi" >> }

Batches == UNION {[1..n -> BulkItems] : n \in 1..MaxBatch}

\* The section types: two keys of SECTION_MAP and one that is no key.
ChosenTypes == {"qimokaoshi", "qizhongkaoshi", "unknown"}

\* The headings ensure_section is called with: two headings of SECTION_MAP,
\* the first of them with a leading space, and the empty heading.
Headings ==
    { SECTION_MAP["qimokaoshi"],
      SECTION_MAP["qita"],
      <<SP>> \o SECTION_MAP["qimokaoshi"],
      <<>> }

\* FileInfo plays no part in the editor's runs.
HintsIdle ==
    /\ relative_path = <<>>
    /\ course_hint = NoText
    /\ type_hint = NoText
    /\ year_hint = NoText
    /\ pc = "idle"

\* FileManager.suggest_filename has not been called.
NoSuggestion ==
    [called |-> FALSE, year |-> NoText, file_type |-> NoType,
     parts |-> <<>>, suffix |-> <<>>, ret |-> <<>>]

\* FileManager.suggest_filename and the workflow play no part in the run.
ManagerIdle ==
    /\ suggestion = NoSuggestion
    /\ step = "idle"
    /\ files = <<>>
    /\ valid_files = <<>>
    /\ selected_files = <<>>
    /\ calls = <<>>
    /\ processed_files = <<>>
    /\ git_log = <<>>
    /\ current_branch = "original"
    /\ pushed = FALSE
    /\ deleted = {}
    /\ told = <<>>
    /\ ended_by = "nothing"
    /\ exit_code = None

\* MDXEditor.__init__: load() has read the document.
InitEditor ==
    /\ lines \in Documents
    /\ before = lines
    /\ op = "load"
    /\ args = <<>>
    /\ ret = None
    /\ rep = FALSE
    /\ HintsIdle
    /\ ManagerIdle

EnsureSection(section_title) ==
    /\ \/ Len(lines) <= MaxLines
       \/ op = "ensure_section" /\ Len(before) <= MaxLines
    /\ LET r == ensure_section(lines, section_title)
       IN  /\ lines' = r.lines
           /\ ret' = r.ret
    /\ before' = lines
    /\ op' = "ensure_section"
    /\ args' = <<section_title>>
    /\ rep' = (op = "ensure_section" /\ args = <<section_title>>)
    /\ UNCHANGED <<hintVars, managerVars, workflowVars>>

AddFileDownload(file_name, file_path, section_type) ==
    /\ Len(lines) <= MaxLines \/ lines \in SectionDocuments
    /\ LET r == add_file_download(lines, file_name, file_path, section_type)
       IN  /\ lines' = r.lines
           /\ ret' = r.ret
    /\ before' = lines
    /\ op' = "add_file_download"
    /\ args' = <<file_name, file_path, section_type>>
    /\ rep' = FALSE
    /\ UNCHANGED <<hintVars, managerVars, workflowVars>>

AddBulkDownloads(downloads) ==
    /\ Len(lines) <= MaxLines \/ lines \in SectionDocuments
    /\ LET r == add_bulk_downloads(lines, downloads)
       IN  /\ lines' = r.lines
           /\ ret' = r.ret
    /\ before' = lines
    /\ op' = "add_bulk_downloads"
    /\ args' = <<downloads>>
    /\ rep' = FALSE
    /\ UNCHANGED <<hintVars, managerVars, workflowVars>>

FormatContent ==
    /\ lines' = format_content(lines)
    /\ before' = lines
    /\ op' = "format_content"
    /\ args' = <<>>
    /\ ret' = None
    /\ rep' = (op = "format_content")
    /\ UNCHANGED <<hintVars, managerVars, workflowVars>>

NextEditor ==
    \/ \E h \in Headings : EnsureSection(h)
    \/ \E n \in FileNames, p \in FilePaths, t \in ChosenTypes :
          AddFileDownload(n, p, t)
    \/ \E downloads \in Batches : AddBulkDownloads(downloads)
    \/ FormatContent

SpecEditor == InitEditor /\ [][NextEditor]_vars

\* ------------------------------------------------- claims on the editor

\* The arguments of the last add_file_download call.
ArgName == args[1]
ArgPath == args[2]
ArgType == args[3]

\* The trailer line of a course document.
CommentsLine == <<"<Comments", SP, "/>">>

\* The first index at which the lines of block stand together in ls, or None.
BlockAt(ls, block) ==
    LET hits == {i \in 0..(Len(ls) - Len(block)) :
                    Slice(ls, i, i + Len(block)) = block}
    IN  IF hits = {} THEN None ELSE Min(hits)

\* a is b with some lines left out: b keeps every line of a, in order.
RECURSIVE IsSubsequence(_, _)
IsSubsequence(a, b) ==
    IF a = <<>> THEN TRUE
    ELSE IF b = <<>> THEN FALSE
    ELSE IF Head(a) = Head(b) THEN IsSubsequence(Tail(a), Tail(b))
    ELSE IsSubsequence(a, Tail(b))

\* The number of lines whose trimmed text starts with h.
HeadingCount(ls, h) ==
    Cardinality({i \in 1..Len(ls) : startswith(strip(ls[i]), h)})

\* C1: when add_file_download(name, p, category) returns True and p holds no
\* line break, check_duplicate(p) called right afterwards returns True.
C1_AddedPathIsFound ==
    (op = "add_file_download" /\ ret = TRUE /\ ~contains(ArgPath, <<NL>>))
        => check_duplicate(lines, ArgPath)

\* C1 witness: a path the document did not hold is found after the call.
C1_Witness ==
    /\ op = "add_file_download"
    /\ ret = TRUE
    /\ ~contains(ArgPath, <<NL>>)
    /\ ~check_duplicate(before, ArgPath)
    /\ check_duplicate(lines, ArgPath)

\* What C2 says of a second ensure_section(h) that follows a first one.
SecondCallAgrees ==
    /\ ret' = ret
    /\ lines' = lines
    /\ HeadingCount(lines', args[1]) = HeadingCount(lines, args[1])

\* C2 as claimed: for every heading text h, a second ensure_section(h) right
\* after a first returns the same index, leaves the lines unchanged and
\* leaves the number of lines starting with h unchanged.
C2_AnyHeading ==
    [][(op = "ensure_section" /\ op' = "ensure_section" /\ args' = args)
          => SecondCallAgrees]_vars

\* C2 amended: the same, for every heading text h that has no leading and no
\* trailing whitespace (h = h.strip(), as every heading of SECTION_MAP).
C2_TrimmedHeading ==
    [][(/\ op = "ensure_section" /\ op' = "ensure_section" /\ args' = args
        /\ strip(args[1]) = args[1])
          => SecondCallAgrees]_vars

\* C2 witness: the second of two ensure_section calls with a trimmed heading
\* that the first call had to create, in a document with a trailer line.
C2_Witness ==
    /\ op = "ensure_section"
    /\ rep
    /\ strip(args[1]) = args[1]
    /\ args[1] # <<>>
    /\ _find_comments_line(lines) # None
    /\ Len(lines) > MaxLines
    /\ lines = before

\* The places of the parts of the document C3 is about, after
\* add_file_download on the document that holds only the trailer line.
C3_Heading == BlockAt(lines, <<SectionTitle(ArgType)>>)
C3_Separator == BlockAt(lines, << <<"---">> >>)
C3_Block == BlockAt(lines, split(FileDownloadText(ArgName, ArgPath)))
C3_BlockEnd == C3_Block + Len(split(FileDownloadText(ArgName, ArgPath))) - 1
C3_Trailer == BlockAt(lines, <<CommentsLine>>)
C3_Case == op = "add_file_download" /\ before = <<CommentsLine>>
C3_AllThere ==
    /\ C3_Heading # None
    /\ C3_Separator # None
    /\ C3_Block # None
    /\ C3_Trailer # None

\* C3 as claimed: from the document whose only line is the trailer, the new
\* heading, the separator, the entry block and the trailer come in that order.
C3_SeparatorBeforeEntry ==
    C3_Case =>
        /\ C3_AllThere
        /\ C3_Heading < C3_Separator
        /\ C3_Separator < C3_Block
        /\ C3_BlockEnd < C3_Trailer

\* C3 amended: from the document whose only line is the trailer, the new
\* heading, the entry block, the separator and the trailer come in that order.
C3_EntryBeforeSeparator ==
    C3_Case =>
        /\ C3_AllThere
        /\ C3_Heading < C3_Block
        /\ C3_BlockEnd < C3_Separator
        /\ C3_Separator < C3_Trailer

\* C3 witness: the call was made on the trailer-only document.
C3_Witness == C3_Case /\ C3_AllThere /\ lines[Len(lines)] = CommentsLine

\* A text without a double quote and without a line break.
NoQuoteNoBreak(s) == ~contains(s, <<DQ>>) /\ ~contains(s, <<NL>>)

\* A text without a double quote, a line break or the comments tag.
PlainText(s) == NoQuoteNoBreak(s) /\ ~contains(s, <<"<Comments">>)

\* C4 as claimed: after add_file_download(name, p, c) returned True, with p
\* free of double quotes and line breaks, get_section_files(c) is the list it
\* was before with p appended.
C4_PathAppended ==
    (op = "add_file_download" /\ ret = TRUE /\ NoQuoteNoBreak(ArgPath))
        => get_section_files(lines, ArgType)
               = Append(get_section_files(before, ArgType), ArgPath)

\* C4 amended: the same when moreover p is not empty and neither p nor the
\* display name holds a double quote, a line break or the text '<Comments'.
C4_PlainPathAppended ==
    (/\ op = "add_file_download" /\ ret = TRUE
     /\ ArgPath # <<>> /\ PlainText(ArgPath) /\ PlainText(ArgName))
        => get_section_files(lines, ArgType)
               = Append(get_section_files(before, ArgType), ArgPath)

\* C4 witness: an entry was added to a section that already held one.
C4_Witness ==
    /\ op = "add_file_download" /\ ret = TRUE
    /\ ArgPath # <<>> /\ PlainText(ArgPath) /\ PlainText(ArgName)
    /\ Len(get_section_files(before, ArgType)) = 1
    /\ Len(get_section_files(lines, ArgType)) = 2

\* The section types whose heading is not the heading of section type t.
OtherTypes(t) ==
    {u \in SectionTypes \cup {"unknown"} : SectionTitle(u) # SectionTitle(t)}

\* What C5 says add_file_download leaves alone.
C5_Frame ==
    /\ IsSubsequence(before, lines)
    /\ \A u \in OtherTypes(ArgType) :
          get_section_files(lines, u) = get_section_files(before, u)

\* C5 as claimed: add_file_download keeps every line there was, in order, and
\* leaves get_section_files of every other section as it was.
C5_OtherSectionsKept == (op = "add_file_download") => C5_Frame

\* C5 amended: the same when neither the display name nor the path holds a
\* line break.
C5_OtherSectionsKeptNoBreak ==
    (/\ op = "add_file_download"
     /\ ~contains(ArgName, <<NL>>) /\ ~contains(ArgPath, <<NL>>))
        => C5_Frame

\* C5 witness: the call created its section in a document in which another
\* section held an entry.
C5_Witness ==
    /\ op = "add_file_download"
    /\ ~contains(ArgName, <<NL>>) /\ ~contains(ArgPath, <<NL>>)
    /\ find_section(before, SectionTitle(ArgType)) = None
    /\ \E u \in OtherTypes(ArgType) : get_section_files(before, u) # <<>>

\* C6: format_content applied to its own result changes nothing.
C6_FormatIdempotent ==
    (op = "format_content") => format_content(lines) = lines

\* C6 witness: a format_content call that dropped lines.
C6_Witness == op = "format_content" /\ Len(lines) < Len(before)

\* --------------------------------------------------- FileInfo at work

\* The most words a generated filename is made of.
MaxWords == 2

\* test_files of scripts/test_parser.py.
test_files ==
    {
      <<"2", "0", "2", "5", "-", "2", "0", "2", "6", "[xue]", "[nian]",
        "[di]", "[yi1]", "[xue]", "[qi]", "-", "[shu]", "[xue]",
        "[fen]", "[xi1]", "B", "RN1", "-", "[jie1]", "[duan]",
        "[xing]", "[kao]", "[shi]", "-", "[shi]", "[juan]", " ", "A",
        "-", "[can]", "[kao]", "[jie3]", "[da]", "FW(", "[cao]",
        "[gao]", "FW)", ".", "p", "d", "f">>,
      <<"2", "0", "2", "4", "-", "[qi]", "[mo]", "-", "[shu]", "[ju]",
        "[jie2b]", "[gou]", "-", "[shi]", "[juan]", ".", "p", "d", "f">>,
      <<"[xian]", "[xing]", "[dai]", "[shu]", "-", "2", "0", "2", "4",
        "-", "[qi]", "[zhong]", "[kao]", "[shi]", ".", "p", "d", "f">>,
      <<"2", "0", "2", "3", "[qiu]", "[ji4]", "[xue]", "[qi]", "-",
        "[gai]", "[lv]", "[lun]", "-", "[fu]", "[xi]", "[zong]",
        "[jie2b]", ".", "p", "d", "f">>,
      <<"[suan]", "[fa]", "[she]", "[ji1]", "-", "[zuo]", "[ye]",
        "[da]", "[an]", "-", "[di]", "[san]", "[zhang]", ".", "p", "d",
        "f">>,
      <<"[ji1]", "[suan]", "[ji1b]", "[zu]", "[cheng]", "-", "[ke]",
        "[jian]", "-", "[di]", "[yi1]", "[jiang]", ".", "p", "p", "t">>,
      <<"[shu]", "[ju]", "[ku]", "[yin]", "[lun]", "[qi]", "[mo]",
        "[shi]", "[juan]", "2", "0", "2", "4", ".", "p", "d", "f">>,
      <<"f", "i", "n", "a", "l", "_", "e", "x", "a", "m", "_", "2",
        "0", "2", "4", ".", "p", "d", "f">> }

\* The words filenames are made of: two academic-year ranges, a year, one
\* keyword of each branch of _guess_type, a chapter, a course and a separator.
NameWords ==
    { <<"2", "0", "2", "5", "-", "2", "0", "2", "6", "[xue]", "[nian]">>,
      <<"1", "9", "9", "9", "-", "2", "0", "0", "0", "[xue]", "[nian]">>,
      <<"2", "0", "2", "4">>,
      <<"[qi]", "[mo]">>,
      <<"[qi]", "[zhong]">>,
      <<"[xiao]", "[ce]">>,
      <<"[fu]", "[xi]">>,
      <<"[bi]", "[ji4b]">>,
      <<"[zuo]", "[ye]">>,
      <<"[ke]", "[jian]">>,
      <<"[da]", "[an]">>,
      <<"[jie1]", "[duan]">>,
      <<"F", "i", "n", "a", "l">>,
      <<"[di]", "[san]", "[zhang]">>,
      <<"[shu]", "[xue]">>,
      <<"-">> }

\* The extensions of the generated filenames.
Extensions == { <<".", "p", "d", "f">>, <<".", "p", "p", "t">> }

\* ''.join(ws)
RECURSIVE Concat(_)
Concat(ws) == IF ws = <<>> THEN <<>> ELSE Head(ws) \o Concat(Tail(ws))

\* The names of the files in the upload directory.
UploadNames ==
    test_files \cup
    {Concat(ws) \o e :
        ws \in UNION {[1..n -> NameWords] : n \in 1..MaxWords}, e \in Extensions}

\* A name made of parts joined by the separator sep, with the extension .pdf.
RECURSIVE JoinWith(_, _)
JoinWith(ps, sep) ==
    IF Len(ps) = 1 THEN ps[1] ELSE ps[1] \o <<sep>> \o JoinWith(Tail(ps), sep)

\* Course names as they occur in the filenames of test_parser.py and one
\* that starts with a letter.
CourseTokens ==
    { <<"[shu]", "[ju]", "[jie2b]", "[gou]">>,
      <<"[shu]", "[xue]", "[fen]", "[xi1]", "B", "RN1">>,
      <<"C", "[yu]", "[yan2]">> }

\* The exam-type keywords and the material keywords of the composed names.
ExamWords == { <<"[qi]", "[mo]">>, <<"[qi]", "[zhong]", "[kao]", "[shi]">> }
MaterialWords == { <<"[shi]", "[juan]">>, <<"[ke]", "[jian]">> }

\* The name made of a year, an exam-type keyword, a course and a material
\* keyword: the course in the third place (as in the second name of
\* test_files) or in the first (as in the third).
ComposedName(c, e, m, sep, first) ==
    JoinWith(IF first THEN <<c, <<"2", "0", "2", "4">>, e, m>>
             ELSE << <<"2", "0", "2", "4">>, e, c, m>>, sep)
        \o <<".", "p", "d", "f">>

ComposedNames ==
    {ComposedName(c, e, m, sep, first) :
        c \in CourseTokens, e \in ExamWords, m \in MaterialWords,
        sep \in Separators, first \in BOOLEAN}

\* The directories below the upload root a file may sit in: the root itself,
\* a directory, and a directory inside a directory.
Directories ==
    { <<>>,
      << <<"[fu]", "[xi]">> >>,
      << <<"[shu]", "[xue]">>, <<"[di]", "[san]", "[zhang]">> >> }

\* The editor plays no part in FileInfo's runs.
EditorIdle ==
    /\ lines = << <<>> >>
    /\ before = << <<>> >>
    /\ op = "idle"
    /\ args = <<>>
    /\ ret = None
    /\ rep = FALSE

\* FileInfo.name
name == relative_path[Len(relative_path)]

\* FileInfo.__init__ up to the first hint: path and upload_root are given.
InitHints ==
    /\ relative_path \in
           {d \o <<n>> : d \in Directories, n \in UploadNames \cup ComposedNames}
    /\ course_hint = NoText
    /\ type_hint = NoType
    /\ year_hint = NoText
    /\ pc = "course"
    /\ EditorIdle
    /\ ManagerIdle

GuessCourse ==
    /\ pc = "course"
    /\ course_hint' = _guess_course(relative_path)
    /\ pc' = "type"
    /\ UNCHANGED <<relative_path, type_hint, year_hint>>
    /\ UNCHANGED <<editorVars, managerVars, workflowVars>>

GuessType ==
    /\ pc = "type"
    /\ type_hint' = _guess_type(name)
    /\ pc' = "year"
    /\ UNCHANGED <<relative_path, course_hint, year_hint>>
    /\ UNCHANGED <<editorVars, managerVars, workflowVars>>

GuessYear ==
    /\ pc = "year"
    /\ year_hint' = _guess_year(name)
    /\ pc' = "done"
    /\ UNCHANGED <<relative_path, course_hint, type_hint>>
    /\ UNCHANGED <<editorVars, managerVars, workflowVars>>

NextHints == GuessCourse \/ GuessType \/ GuessYear

SpecHints == InitHints /\ [][NextHints]_vars

\* ------------------------------------------------- claims on FileInfo

\* course_hint holds one of the excluded words.
HoldsExcludedWord == \E w \in exclude_words : contains(course_hint, w)

\* C7 as claimed: course_hint, once computed, is absent or holds none of the
\* excluded words, wherever the file sits.
C7_NoExcludedWordAnywhere ==
    (pc # "course") => (course_hint = NoText \/ ~HoldsExcludedWord)

\* C7 amended: for a file that sits directly in the upload root, course_hint
\* is absent or holds none of the excluded words.
C7_NoExcludedWordInRoot ==
    (pc # "course" /\ Len(relative_path) = 1)
        => (course_hint = NoText \/ ~HoldsExcludedWord)

\* C7 witness: the file named after a chapter, in the upload root, whose
\* candidate was rejected.
C7_Witness ==
    /\ pc = "done"
    /\ relative_path = << <<"[di]", "[san]", "[zhang]", ".", "p", "d", "f">> >>
    /\ course_hint = NoText

\* C8: for a file with at least one directory above it, course_hint is the
\* name of the first directory below the upload root, whatever the filename.
C8_SubdirectoryIsCourse ==
    (pc # "course" /\ Len(relative_path) > 1) => course_hint = relative_path[1]

\* C8 witness: a file two directories deep whose own name spells another
\* course.
C8_Witness ==
    /\ pc = "done"
    /\ Len(relative_path) = 3
    /\ course_hint = relative_path[1]
    /\ CourseFromName(name) \notin {NoText, relative_path[1], relative_path[2]}

\* The year C9 claims: the first four digits of the first dddd-dddd[xue][nian]
\* range, else the first 20dd run, else nothing.
ClaimedYear(n) ==
    LET ranges == {i \in 0..(Len(n) - 1) : MatchYearRange(n, i) > 0}
        years == {i \in 0..(Len(n) - 1) : MatchYear(n, i) > 0}
    IN  IF ranges # {} THEN Slice(n, Min(ranges), Min(ranges) + 4)
        ELSE IF years # {} THEN Slice(n, Min(years), Min(years) + 4)
        ELSE NoText

\* C9: year_hint is the first year of the academic-year range dddd-dddd[xue][nian]
\* (any digits) when the name holds one, else the first 20dd run, else absent.
C9_FirstYearOfAnyRange == (pc = "done") => year_hint = ClaimedYear(name)

\* The keyword groups of C10, highest priority first: the keywords looked for
\* in the name as it is, those looked for in the lower-cased name, and the
\* category of the group ("answer": decided by AnswerCategory).
KeywordGroups ==
    << [raw |-> { <<"[qi]", "[mo]">> },
        latin |-> { <<"f", "i", "n", "a", "l">> },
        type |-> "qimokaoshi"],
       [raw |-> { <<"[qi]", "[zhong]">>, <<"[duan]", "[kao]">>,
                  <<"[jie1]", "[duan]", "[xing]", "[kao]", "[shi]">> },
        latin |-> { <<"m", "i", "d", "t", "e", "r", "m">> },
        type |-> "qizhongkaoshi"],
       [raw |-> { <<"[xiao]", "[ce]">>, <<"[ce]", "[yan]">> },
        latin |-> { <<"q", "u", "i", "z">> },
        type |-> "qizhongkaoshi"],
       [raw |-> { <<"[fu]", "[xi]">>, <<"[zong]", "[jie2b]">> },
        latin |-> { <<"r", "e", "v", "i", "e", "w">> },
        type |-> "fuxiziliao"],
       [raw |-> { <<"[bi]", "[ji4b]">> },
        latin |-> { <<"n", "o", "t", "e">> },
        type |-> "ketangbiji"],
       [raw |-> { <<"[zuo]", "[ye]">> },
        latin |-> { <<"h", "o", "m", "e", "w", "o", "r", "k">>, <<"h", "w">> },
        type |-> "zuoyexiti"],
       [raw |-> { <<"[ke]", "[jian]">>, <<"[jiang]", "[yi4]">> },
        latin |-> { <<"p", "p", "t">> },
        type |-> "PPTkejian"],
       [raw |-> { <<"[da]", "[an]">>, <<"[jie3]", "[da]">> },
        latin |-> { <<"s", "o", "l", "u", "t", "i", "o", "n">>,
                    <<"a", "n", "s", "w", "e", "r">> },
        type |-> "answer"] >>

\* The name n holds a keyword of the group g, wherever in the name.
GroupIn(g, n) ==
    \/ \E w \in g.raw : contains(n, w)
    \/ \E w \in g.latin : contains(lower(n), w)

\* The category of an answer: that of the exam it answers, else the other
\* materials.
AnswerCategory(n) ==
    IF GroupIn(KeywordGroups[1], n) THEN "qimokaoshi"
    ELSE IF contains(n, <<"[qi]", "[zhong]">>) \/ contains(n, <<"[jie1]", "[duan]">>)
         THEN "qizhongkaoshi"
    ELSE "qita"

\* The category of the highest-priority group that has a keyword in n.
ClaimedType(n) ==
    LET present == {k \in 1..Len(KeywordGroups) : GroupIn(KeywordGroups[k], n)}
    IN  IF present = {} THEN NoType
        ELSE IF KeywordGroups[Min(present)].type = "answer" THEN AnswerCategory(n)
        ELSE KeywordGroups[Min(present)].type

\* C10: type_hint is the category of the highest-priority keyword group with
\* a keyword in the name, wherever the keywords stand; a name with [qi][mo]
\* and [bi][ji4b] gives the final exam, a name with no keyword gives no hint.
C10_FirstKeywordGroupWins ==
    (pc \in {"year", "done"}) =>
        /\ type_hint = ClaimedType(name)
        /\ (contains(name, <<"[qi]", "[mo]">>) /\ contains(name, <<"[bi]", "[ji4b]">>))
               => type_hint = "qimokaoshi"
        /\ (\A k \in 1..Len(KeywordGroups) : ~GroupIn(KeywordGroups[k], name))
               => type_hint = NoType

\* C10 witness: a name with the notes keyword before the final-exam keyword.
C10_Witness ==
    /\ pc = "done"
    /\ name = <<"[bi]", "[ji4b]", "[qi]", "[mo]", ".", "p", "d", "f">>
    /\ type_hint = "qimokaoshi"

\* C12: final_exam_2024.pdf in the upload root gives the final-exam type,
\* the year 2024 and no course hint.
C12_FinalExam2024 ==
    (/\ pc = "done"
     /\ relative_path = << <<"f", "i", "n", "a", "l", "_", "e", "x", "a", "m",
                             "_", "2", "0", "2", "4", ".", "p", "d", "f">> >>)
        => /\ type_hint = "qimokaoshi"
           /\ year_hint = <<"2", "0", "2", "4">>
           /\ course_hint = NoText

\* C13: 2024-[qi][mo]-[shu][ju][jie2b][gou]-[shi][juan].pdf in the upload
\* root gives the final-exam type, the year 2024 and the course
\* [shu][ju][jie2b][gou]; and for every name in the upload root made of a
\* year, an exam-type keyword, a material keyword and one course token
\* joined by '-' or '_', the course hint is that course token.
C13_CourseTokenOfComposedName ==
    (pc = "done" /\ Len(relative_path) = 1) =>
        /\ name = <<"2", "0", "2", "4", "-", "[qi]", "[mo]", "-", "[shu]", "[ju]",
                    "[jie2b]", "[gou]", "-", "[shi]", "[juan]", ".", "p", "d", "f">>
               => /\ type_hint = "qimokaoshi"
                  /\ year_hint = <<"2", "0", "2", "4">>
                  /\ course_hint = <<"[shu]", "[ju]", "[jie2b]", "[gou]">>
        /\ \A c \in CourseTokens, e \in ExamWords, m \in MaterialWords,
              sep \in Separators, first \in BOOLEAN :
               name = ComposedName(c, e, m, sep, first) => course_hint = c

\* ---------------------------------------------------------- FileManager

\* The text of a resource type (the section types of the editor are the
\* resource types of the workflow).
ResourceTypeText(t) ==
    CASE t = "qimokaoshi"    -> <<"[qi]", "[mo]", "[kao]", "[shi]">>
      [] t = "qizhongkaoshi" -> <<"[qi]", "[zhong]", "[kao]", "[shi]">>
      [] t = "fuxiziliao"    -> <<"[fu]", "[xi]", "[zi]", "[liao]">>
      [] t = "ketangbiji"    -> <<"[ke]", "[tang]", "[bi]", "[ji4b]">>
      [] t = "zuoyexiti"     -> <<"[zuo]", "[ye]", "[xi]", "[ti]">>
      [] t = "PPTkejian"     -> <<"P", "P", "T", "[ke]", "[jian]">>
      [] t = "qita"          -> <<"[qi2]", "[ta]">>

\* s.rfind('.'), None when s has no dot.
rfind_dot(s) ==
    LET dots == {i \in 0..(Len(s) - 1) : At(s, i) = "."}
    IN  IF dots = {} THEN None ELSE Max(dots)

\* Path.suffix: the last dot and what follows it, unless that dot is the
\* first or the last character of the name.
PathSuffix(n) ==
    LET i == rfind_dot(n)
    IN  IF 0 < i /\ i < Len(n) - 1 THEN Slice(n, i, Len(n)) ELSE <<>>

\* Path.stem: the name without its suffix.
PathStem(n) ==
    LET i == rfind_dot(n)
    IN  IF 0 < i /\ i < Len(n) - 1 THEN Slice(n, 0, i) ELSE n

\* r'^\d{4}[-_]?': a match at the start of the text only.
MatchLeadingYear(s, i) ==
    IF i = 0 /\ Len(s) >= 4 /\ \A k \in 0..3 : At(s, k) \in Digits
    THEN 4 + Opt(s, 4, Separators) ELSE 0

\* r'([qi][mo]|[qi][zhong]|[fu][xi]|[bi][ji4b]|[zuo][ye]|[shi][juan]|[da][an])[-_]?'
MatchTypeKeyword(s, i) ==
    LET n == Alt(s, i, << <<"[qi]", "[mo]">>, <<"[qi]", "[zhong]">>,
                          <<"[fu]", "[xi]">>, <<"[bi]", "[ji4b]">>,
                          <<"[zuo]", "[ye]">>, <<"[shi]", "[juan]">>,
                          <<"[da]", "[an]">> >>)
    IN  IF n > 0 THEN n + Opt(s, i + n, Separators) ELSE 0

sub_LeadingYear(s) == Remove(s, [i \in 0..Len(s) |-> MatchLeadingYear(s, i)], 0)
sub_TypeKeyword(s) == Remove(s, [i \in 0..Len(s) |-> MatchTypeKeyword(s, i)], 0)

\* str.strip('-_')
StripSeparators(s) ==
    LET keep == {i \in 1..Len(s) : s[i] \notin Separators}
    IN  IF keep = {} THEN <<>> ELSE SubSeq(s, Min(keep), Max(keep))

\* str.replace(old, '')
replace(s, old) == Remove(s, [i \in 0..Len(s) |-> OptWord(s, i, old)], 0)

\* type_map.get(file_type, '[zi][liao]')
type_map(file_type) ==
    CASE file_type = "qimokaoshi"    -> <<"[shi]", "[juan]">>
      [] file_type = "qizhongkaoshi" -> <<"[shi]", "[juan]">>
      [] file_type = "fuxiziliao"    -> <<"[zong]", "[jie2b]">>
      [] file_type = "ketangbiji"    -> <<"[bi]", "[ji4b]">>
      [] file_type = "zuoyexiti"     -> <<"[zuo]", "[ye]">>
      [] file_type = "PPTkejian"     -> <<"P", "P", "T">>
      [] OTHER                       -> <<"[zi]", "[liao]">>

\* The description with an empty stem left as it is.
Description_NoDefault(n, file_type) ==
    StripSeparators(sub_TypeKeyword(sub_LeadingYear(PathStem(n))))

\* The cleaned stem, or the type's noun when nothing is left of the stem.
Description(n, file_type) ==
    LET stem == StripSeparators(sub_TypeKeyword(sub_LeadingYear(PathStem(n))))
    IN  IF stem = <<>> THEN type_map(file_type) ELSE stem

\* file_type.replace('[kao][shi]', '').replace('[zi][liao]', '').replace('[xi][ti]', '')
type_short(file_type) ==
    replace(replace(replace(ResourceTypeText(file_type), <<"[kao]", "[shi]">>),
                    <<"[zi]", "[liao]">>),
            <<"[xi]", "[ti]">>)

\* A str that is neither None nor empty.
Truthy(s) == s # NoText /\ s # <<>>

\* The list `parts` of suggest_filename when it is joined: now is
\* datetime.now().strftime("%Y").
SuggestParts(n, hint, year, file_type, now) ==
    << (IF Truthy(year) THEN year ELSE IF Truthy(hint) THEN hint ELSE now) >>
    \o (IF file_type # NoType THEN <<type_short(file_type)>> ELSE <<>>)
    \o << Description(n, file_type) >>

\* '-'.join(parts)
RECURSIVE join(_)
join(parts) ==
    IF parts = <<>> THEN <<>>
    ELSE IF Len(parts) = 1 THEN parts[1]
    ELSE parts[1] \o <<"-">> \o join(Tail(parts))

suggest_filename(n, hint, year, file_type, now) ==
    join(SuggestParts(n, hint, year, file_type, now)) \o PathSuffix(n)

\* str(n) for n >= 0.
RECURSIVE Decimal(_)
Decimal(n) ==
    LET d == <<"0", "1", "2", "3", "4", "5", "6", "7", "8", "9">>
    IN  IF n < 10 THEN <<d[n + 1]>> ELSE Decimal(n \div 10) \o <<d[(n % 10) + 1]>>

\* f"{size:.1f}" for size = num / den: the quotient in tenths, rounded to
\* the nearest, a tie to the even tenth.
Tenths(num, den) ==
    LET q == (10 * num) \div den
        r == (10 * num) % den
    IN  IF 2 * r > den \/ (2 * r = den /\ q % 2 = 1) THEN q + 1 ELSE q

\* The loop of get_size_str from the unit units[k] on, size being num / den.
RECURSIVE SizeLoop(_, _, _)
SizeLoop(num, den, k) ==
    LET units == << <<"B">>, <<"K", "B">>, <<"M", "B">>, <<"G", "B">>, <<"T", "B">> >>
        t == Tenths(num, den)
    IN  IF k = 5 \/ num < 1024 * den
        THEN Decimal(t \div 10) \o <<".">> \o Decimal(t % 10) \o units[k]
        ELSE SizeLoop(num, den * 1024, k + 1)

get_size_str(size) == SizeLoop(size, 1, 1)

is_valid_size(size) == size < 100 * 1024 * 1024

\* supported
supported ==
    { <<".", "p", "d", "f">>, <<".", "d", "o", "c", "x">>, <<".", "d", "o", "c">>,
      <<".", "p", "p", "t", "x">>, <<".", "p", "p", "t">>, <<".", "z", "i", "p">>,
      <<".", "r", "a", "r">>, <<".", "7", "z">>, <<".", "m", "d">>,
      <<".", "t", "x", "t">>, <<".", "x", "l", "s", "x">>, <<".", "x", "l", "s">>,
      <<".", "p", "n", "g">>, <<".", "j", "p", "g">>, <<".", "j", "p", "e", "g">> }

is_supported_format(n) == lower(PathSuffix(n)) \in supported

\* validate_file with the size test passing at the limit itself.
validate_file_AtMost(f) ==
    IF ~f.exists THEN <<FALSE, <<"[wen]", "[jian]", "[bu]", "[cun]", "[zai]">> >>
    ELSE IF ~(f.size <= 100 * 1024 * 1024)
    THEN <<FALSE, <<"[wen]", "[jian]", "[guo]", "[da4]", SP, "(">> \o get_size_str(f.size)
                      \o <<")", "FW,", "[chao]", "[guo]", "1", "0", "0", "M", "B",
                           "[xian4]", "[zhi]">> >>
    ELSE IF ~is_supported_format(f.name)
    THEN <<FALSE, <<"[bu]", "[zhi2]", "[chi]", "[de]", "[wen]", "[jian]", "[ge]",
                    "[shi4]", ":", SP>> \o PathSuffix(f.name)>>
    ELSE <<TRUE, <<>> >>

\* validate_file(file_info) -> (ok, reason): f.exists is path.exists() at the
\* time of the call, f.size the size FileInfo recorded, f.name the name.
validate_file(f) ==
    IF ~f.exists THEN <<FALSE, <<"[wen]", "[jian]", "[bu]", "[cun]", "[zai]">> >>
    ELSE IF ~is_valid_size(f.size)
    THEN <<FALSE, <<"[wen]", "[jian]", "[guo]", "[da4]", SP, "(">> \o get_size_str(f.size)
                      \o <<")", "FW,", "[chao]", "[guo]", "1", "0", "0", "M", "B",
                           "[xian4]", "[zhi]">> >>
    ELSE IF ~is_supported_format(f.name)
    THEN <<FALSE, <<"[bu]", "[zhi2]", "[chi]", "[de]", "[wen]", "[jian]", "[ge]",
                    "[shi4]", ":", SP>> \o PathSuffix(f.name)>>
    ELSE <<TRUE, <<>> >>

\* ------------------------------------------------- FileManager at work

\* Names that Path splits in an unusual way: no suffix, a trailing dot, two
\* dots.
OddNames ==
    { <<"2", "0", "2", "4">>,
      <<"[shu]", "[xue]", ".">>,
      <<"[qi]", "[mo]", ".", "t", ".", "g", "z">> }

\* The files suggest_filename is asked about, all in the upload root: the
\* names of test_parser.py, the odd names and the .pdf files named by up to
\* MaxWords words.
SuggestFiles ==
    {<<n>> : n \in test_files \cup OddNames \cup
        {Concat(ws) \o <<".", "p", "d", "f">> :
            ws \in UNION {[1..n -> NameWords] : n \in 1..MaxWords}}}

\* The year argument: absent, empty, or a year the user chose.
ChosenYears == {NoText, <<>>, <<"2", "0", "2", "3">>}

\* The file_type argument: absent or one of EasyPR.resource_types.
ChosenFileTypes == SectionTypes \cup {NoType}

\* datetime.now().strftime("%Y") at the time of the call.
CurrentYears == {<<"2", "0", "2", "6">>, <<"2", "0", "2", "7">>}

\* A FileInfo has been constructed for a file of the upload directory.
InitSuggest ==
    /\ relative_path \in SuggestFiles
    /\ course_hint = _guess_course(relative_path)
    /\ type_hint = _guess_type(name)
    /\ year_hint = _guess_year(name)
    /\ pc = "done"
    /\ EditorIdle
    /\ ManagerIdle

\* One call for each file, as in process_file.
SuggestFilename(year, file_type, now) ==
    /\ pc = "done"
    /\ ~suggestion.called
    /\ suggestion' =
           [called |-> TRUE, year |-> year, file_type |-> file_type,
            parts |-> SuggestParts(name, year_hint, year, file_type, now),
            suffix |-> PathSuffix(name),
            ret |-> suggest_filename(name, year_hint, year, file_type, now)]
    /\ UNCHANGED <<editorVars, hintVars, workflowVars>>

NextSuggest ==
    \E year \in ChosenYears, file_type \in ChosenFileTypes, now \in CurrentYears :
        SuggestFilename(year, file_type, now)

SpecSuggest == InitSuggest /\ [][NextSuggest]_vars

\* ---------------------------------------------- claims on FileManager

\* s ends with the text tail.
endswith(s, tail) ==
    Len(tail) <= Len(s) /\ Slice(s, Len(s) - Len(tail), Len(s)) = tail

\* Nothing is left of the stem once the year and the keywords are stripped.
NothingLeft == StripSeparators(sub_TypeKeyword(sub_LeadingYear(PathStem(name)))) = <<>>

\* C11: whatever the file, the year and the category chosen, the suggested
\* name is not empty, ends with the file's extension, is the year, the short
\* category (when a category is given) and the description joined by '-',
\* each of them non-empty, and the description is the category's default
\* noun when nothing is left of the stem.
C11_SuggestedNameWellFormed ==
    suggestion.called =>
        /\ suggestion.ret # <<>>
        /\ endswith(suggestion.ret, PathSuffix(name))
        /\ suggestion.ret = join(suggestion.parts) \o PathSuffix(name)
        /\ Len(suggestion.parts) = (IF suggestion.file_type = NoType THEN 2 ELSE 3)
        /\ \A k \in 1..Len(suggestion.parts) : suggestion.parts[k] # <<>>
        /\ NothingLeft =>
               suggestion.parts[Len(suggestion.parts)] = type_map(suggestion.file_type)

\* C11 witness: a file whose stem is a keyword only and has no year, with an
\* empty year chosen: the current year, the short category, the default noun.
C11_Witness ==
    /\ suggestion.called
    /\ name = <<"[qi]", "[mo]", ".", "p", "d", "f">>
    /\ suggestion.year = <<>>
    /\ suggestion.file_type = "qimokaoshi"
    /\ suggestion.ret = <<"2", "0", "2", "6", "-", "[qi]", "[mo]", "-",
                          "[shi]", "[juan]", ".", "p", "d", "f">>

\* ---------------------------------------------------------------- EasyPR
\* The workflow of easy_pr.py.  Its collaborators (the prompts, the file
\* system, git and the GitHub CLI) are given by their outcomes: what a
\* prompt answered, whether a call succeeded, failed or raised.

\* range(len(fs)), 1-based.
Indices(fs) == [i \in 1..Len(fs) |-> i]

\* valid_files = [f for f in files if validate_file(f)[0]]
ValidFiles(fs) == SelectSeq(Indices(fs), LAMBDA i : validate_file(fs[i])[1])

\* The members of a sequence.
Range(q) == {q[i] : i \in 1..Len(q)}

\* process_file that saves the document before it formats it.
process_file_SaveBeforeFormat(o) ==
    IF ~o.prompts \/ ~o.move
    THEN [ret |-> FALSE, copied |-> FALSE, ops |-> <<>>, saved |-> FALSE,
          appended |-> FALSE]
    ELSE IF ~o.load
    THEN [ret |-> FALSE, copied |-> TRUE, ops |-> <<"load">>, saved |-> FALSE,
          appended |-> FALSE]
    ELSE IF ~o.add
    THEN [ret |-> TRUE, copied |-> TRUE, ops |-> <<"load", "add_file_download">>,
          saved |-> FALSE, appended |-> TRUE]
    ELSE [ret |-> o.save, copied |-> TRUE,
          ops |-> <<"load", "add_file_download", "save", "format_content">>,
          saved |-> o.save, appended |-> o.save]

\* process_file(file_info).  o gives the collaborators' outcomes:
\*   o.prompts  every prompt was answered and create_course, when called,
\*              returned True (lines 192-261)
\*   o.move     move_file returned (True, path)
\*   o.load     MDXEditor(mdx_path) did not raise
\*   o.add      the value add_file_download returned
\*   o.save     editor.save() did not raise
\* The result: the value returned, whether the file was copied into the
\* resources tree, the editor calls made in order, whether the document was
\* written, whether a record was appended to processed_files.
process_file(o) ==
    IF ~o.prompts
    THEN [ret |-> FALSE, copied |-> FALSE, ops |-> <<>>, saved |-> FALSE,
          appended |-> FALSE]
    ELSE IF ~o.move
    THEN [ret |-> FALSE, copied |-> FALSE, ops |-> <<>>, saved |-> FALSE,
          appended |-> FALSE]
    ELSE IF ~o.load
    THEN [ret |-> FALSE, copied |-> TRUE, ops |-> <<"load">>, saved |-> FALSE,
          appended |-> FALSE]
    ELSE IF o.add
    THEN IF o.save
         THEN [ret |-> TRUE, copied |-> TRUE,
               ops |-> <<"load", "add_file_download", "format_content", "save">>,
               saved |-> TRUE, appended |-> TRUE]
         ELSE [ret |-> FALSE, copied |-> TRUE,
               ops |-> <<"load", "add_file_download", "format_content", "save">>,
               saved |-> FALSE, appended |-> FALSE]
    ELSE [ret |-> TRUE, copied |-> TRUE, ops |-> <<"load", "add_file_download">>,
          saved |-> FALSE, appended |-> TRUE]

\* create_git_commit that does not undo the branch when the commit fails.
create_git_commit_KeepsBranch(o) ==
    [ret |-> o.git /\ o.branch /\ o.add /\ o.commit /\ o.push, raised |-> FALSE,
     log |-> <<"get_current_branch">>
             \o (IF o.git THEN <<"create_branch">> ELSE <<>>)
             \o (IF o.git /\ o.branch THEN <<"add_files">> ELSE <<>>)
             \o (IF o.git /\ o.branch /\ o.add THEN <<"commit">> ELSE <<>>)
             \o (IF o.git /\ o.branch /\ o.add /\ o.commit THEN <<"push">> ELSE <<>>)
             \o (IF o.git /\ o.branch /\ ~o.add
                 THEN <<"restore_branch", "delete_branch">> ELSE <<>>),
     branch |-> IF o.git /\ o.branch /\ o.add THEN "new" ELSE "original",
     pushed |-> o.git /\ o.branch /\ o.add /\ o.commit /\ o.push]

\* create_git_commit without its try/except: an exception leaves the method.
create_git_commit_Uncaught(o) ==
    IF ~o.git
    THEN [ret |-> FALSE, raised |-> TRUE, log |-> <<"get_current_branch">>,
          branch |-> "original", pushed |-> FALSE]
    ELSE [ret |-> o.branch /\ o.add /\ o.commit /\ o.push, raised |-> FALSE,
          log |-> <<"get_current_branch", "create_branch">>
                  \o (IF o.branch THEN <<"add_files">> ELSE <<>>)
                  \o (IF o.branch /\ o.add THEN <<"commit">> ELSE <<>>)
                  \o (IF o.branch /\ o.add /\ o.commit THEN <<"push">> ELSE <<>>)
                  \o (IF o.branch /\ ~(o.add /\ o.commit)
                      THEN <<"restore_branch", "delete_branch">> ELSE <<>>),
          branch |-> IF o.branch /\ o.add /\ o.commit THEN "new" ELSE "original",
          pushed |-> o.branch /\ o.add /\ o.commit /\ o.push]

\* create_git_commit().  o gives git's outcomes:
\*   o.git     the git commands could be run at all (else the first of them
\*             raises, and the handler of line 392 returns False)
\*   o.branch  create_branch returned (True, ""); o.add: add_files did;
\*   o.commit  commit did; o.push: push did
\* The result: the value returned, whether an exception left the method, the
\* GitManager calls made in order, the branch the working tree is on and
\* whether the new branch is on the remote.
create_git_commit(o) ==
    IF ~o.git
    THEN [ret |-> FALSE, raised |-> FALSE, log |-> <<"get_current_branch">>,
          branch |-> "original", pushed |-> FALSE]
    ELSE IF ~o.branch
    THEN [ret |-> FALSE, raised |-> FALSE,
          log |-> <<"get_current_branch", "create_branch">>,
          branch |-> "original", pushed |-> FALSE]
    ELSE IF ~o.add
    THEN [ret |-> FALSE, raised |-> FALSE,
          log |-> <<"get_current_branch", "create_branch", "add_files",
                    "restore_branch", "delete_branch">>,
          branch |-> "original", pushed |-> FALSE]
    ELSE IF ~o.commit
    THEN [ret |-> FALSE, raised |-> FALSE,
          log |-> <<"get_current_branch", "create_branch", "add_files", "commit",
                    "restore_branch", "delete_branch">>,
          branch |-> "original", pushed |-> FALSE]
    ELSE IF ~o.push
    THEN [ret |-> FALSE, raised |-> FALSE,
          log |-> <<"get_current_branch", "create_branch", "add_files", "commit",
                    "push">>,
          branch |-> "new", pushed |-> FALSE]
    ELSE [ret |-> TRUE, raised |-> FALSE,
          log |-> <<"get_current_branch", "create_branch", "add_files", "commit",
                    "push">>,
          branch |-> "new", pushed |-> TRUE]

\* create_pull_request that undoes the branch when the pull request fails.
create_pull_request_RollsBack(o) ==
    CASE o = "created" -> [ret |-> TRUE, log |-> <<"create_pr">>, told |-> <<"pr_created">>]
      [] o = "refused" ->
            [ret |-> FALSE, log |-> <<"create_pr", "restore_branch", "delete_branch">>,
             told |-> <<"pr_refused">>]
      [] o = "raised"  ->
            [ret |-> FALSE, log |-> <<"create_pr", "restore_branch", "delete_branch">>,
             told |-> <<"pr_raised">>]

\* create_pull_request().  o is what create_pr did: "created" (True, url),
\* "refused" (False, message) or "raised".  The result: the value returned,
\* the GitManager calls made and what was printed.
create_pull_request(o) ==
    CASE o = "created" -> [ret |-> TRUE, log |-> <<"create_pr">>, told |-> <<"pr_created">>]
      [] o = "refused" ->
            [ret |-> FALSE, log |-> <<"create_pr">>,
             told |-> <<"pr_refused", "changes_pushed_to_branch">>]
      [] o = "raised"  ->
            [ret |-> FALSE, log |-> <<"create_pr">>, told |-> <<"pr_raised">>]

\* The exit status main() ends the process with: run() returned, a
\* KeyboardInterrupt (sys.exit(0)) or another exception (sys.exit(1)).
ExitCode(how) ==
    CASE how = "return" -> 0
      [] how = "KeyboardInterrupt" -> 0
      [] how = "Exception" -> 1

\* -------------------------------------------------------- EasyPR at work

MaxFiles == 2

\* The files of the upload directory, as validate_file meets them: one just
\* below the size limit, one with an upper-case extension, one at the limit,
\* one of an unsupported format, one that is gone when it is validated.
UploadFiles ==
    { [name |-> <<"a", ".", "p", "d", "f">>, size |-> 104857599, exists |-> TRUE],
      [name |-> <<"a", ".", "P", "D", "F">>, size |-> 0, exists |-> TRUE],
      [name |-> <<"a", ".", "p", "d", "f">>, size |-> 104857600, exists |-> TRUE],
      [name |-> <<"a", ".", "e", "x", "e">>, size |-> 1, exists |-> TRUE],
      [name |-> <<"a", ".", "p", "d", "f">>, size |-> 1, exists |-> FALSE] }

\* The outcomes of one process_file call; a collaborator that is not reached
\* has no outcome of its own.
ProcessOutcomes ==
    {o \in [prompts : BOOLEAN, move : BOOLEAN, load : BOOLEAN, add : BOOLEAN,
            save : BOOLEAN] :
        /\ ~o.prompts => o.move
        /\ ~(o.prompts /\ o.move) => o.load
        /\ ~(o.prompts /\ o.move /\ o.load) => o.add
        /\ ~(o.prompts /\ o.move /\ o.load /\ o.add) => o.save}

\* The outcomes of the git commands of create_git_commit.
GitOutcomes ==
    {o \in [git : BOOLEAN, branch : BOOLEAN, add : BOOLEAN, commit : BOOLEAN,
            push : BOOLEAN] :
        /\ ~o.git => o.branch
        /\ ~(o.git /\ o.branch) => o.add
        /\ ~(o.git /\ o.branch /\ o.add) => o.commit
        /\ ~(o.git /\ o.branch /\ o.add /\ o.commit) => o.push}

PullRequestOutcomes == {"created", "refused", "raised"}

\* What a confirm prompt answers: True, False, or None when it is cancelled.
Answers == {"yes", "no", "cancelled"}

\* No editor, FileInfo or suggest_filename state is looked at in the runs of
\* the workflow.
WorkflowOnly ==
    /\ EditorIdle
    /\ HintsIdle
    /\ suggestion = NoSuggestion

\* main() is entered; the upload directory holds up to MaxFiles files.
InitRun ==
    /\ step = "main"
    /\ files \in UNION {[1..n -> UploadFiles] : n \in 0..MaxFiles}
    /\ valid_files = <<>>
    /\ selected_files = <<>>
    /\ calls = <<>>
    /\ processed_files = <<>>
    /\ git_log = <<>>
    /\ current_branch = "original"
    /\ pushed = FALSE
    /\ deleted = {}
    /\ told = <<>>
    /\ ended_by = "nothing"
    /\ exit_code = None
    /\ WorkflowOnly

\* run() returns at once: main() and the process end.
Return(why) ==
    /\ step' = "returned"
    /\ ended_by' = why
    /\ exit_code' = ExitCode("return")

\* app = EasyPR(): GitManager.__init__ calls check_git_repo, which raises
\* RuntimeError outside a git repository; main() catches it and exits.
Construct(is_repo) ==
    /\ step = "main"
    /\ IF is_repo
       THEN /\ step' = "scan"
            /\ UNCHANGED <<ended_by, exit_code>>
       ELSE /\ step' = "exited"
            /\ ended_by' = "not_a_git_repo"
            /\ exit_code' = ExitCode("Exception")
    /\ UNCHANGED <<files, valid_files, selected_files, calls, processed_files,
                   git_log, current_branch, pushed, deleted, told>>
    /\ UNCHANGED <<editorVars, hintVars, suggestion>>

\* run(), lines 72-107: scan, list and validate the files, keep the valid.
Scan ==
    /\ step = "scan"
    /\ IF files = <<>> THEN Return("no_files") /\ UNCHANGED valid_files
       ELSE /\ valid_files' = ValidFiles(files)
            /\ IF valid_files' = <<>> THEN Return("no_valid_files")
               ELSE /\ step' = IF Len(valid_files') < Len(files)
                               THEN "confirm_invalid" ELSE "select"
                    /\ UNCHANGED <<ended_by, exit_code>>
    /\ UNCHANGED <<files, selected_files, calls, processed_files,
                   git_log, current_branch, pushed, deleted, told>>
    /\ UNCHANGED <<editorVars, hintVars, suggestion>>

\* run(), lines 103-107: go on with the valid files?
ConfirmInvalid(answer) ==
    /\ step = "confirm_invalid"
    /\ IF answer = "yes"
       THEN step' = "select" /\ UNCHANGED <<ended_by, exit_code>>
       ELSE Return("declined_invalid_files")
    /\ UNCHANGED <<files, valid_files, selected_files, calls, processed_files,
                   git_log, current_branch, pushed, deleted, told>>
    /\ UNCHANGED <<editorVars, hintVars, suggestion>>

\* run(), lines 110-130: the checkbox offers valid_files; chosen is the set
\* of files the user ticked (none when the prompt is cancelled).
Select(chosen) ==
    /\ step = "select"
    /\ selected_files' = SelectSeq(valid_files, LAMBDA i : i \in chosen)
    /\ IF selected_files' = <<>> THEN Return("nothing_selected")
       ELSE step' = "process" /\ UNCHANGED <<ended_by, exit_code>>
    /\ UNCHANGED <<files, valid_files, calls, processed_files,
                   git_log, current_branch, pushed, deleted, told>>
    /\ UNCHANGED <<editorVars, hintVars, suggestion>>

\* run(), lines 135-138: one turn of the loop over selected_files.
ProcessFile(o, answer) ==
    /\ step = "process"
    /\ Len(calls) < Len(selected_files)
    /\ LET f == selected_files[Len(calls) + 1]
           r == process_file(o)
       IN  /\ calls' = Append(calls, [file |-> f, outcome |-> o, ret |-> r.ret,
                                      copied |-> r.copied, ops |-> r.ops,
                                      saved |-> r.saved])
           /\ processed_files' = IF r.appended THEN Append(processed_files, f)
                                 ELSE processed_files
           /\ IF r.ret \/ answer = "yes"
              THEN UNCHANGED <<step, ended_by, exit_code>>
              ELSE Return("declined_to_continue")
    /\ UNCHANGED <<files, valid_files, selected_files,
                   git_log, current_branch, pushed, deleted, told>>
    /\ UNCHANGED <<editorVars, hintVars, suggestion>>

\* run(), lines 140-150: after the loop.
PreviewChanges(answer) ==
    /\ step = "process"
    /\ Len(calls) = Len(selected_files)
    /\ IF processed_files = <<>> THEN Return("no_file_processed")
       ELSE IF answer = "yes" THEN step' = "git" /\ UNCHANGED <<ended_by, exit_code>>
       ELSE Return("declined_to_execute")
    /\ UNCHANGED <<files, valid_files, selected_files, calls, processed_files,
                   git_log, current_branch, pushed, deleted, told>>
    /\ UNCHANGED <<editorVars, hintVars, suggestion>>

\* run(), lines 153-157.
CreateGitCommit(o) ==
    /\ step = "git"
    /\ LET r == create_git_commit(o)
       IN  /\ git_log' = git_log \o r.log
           /\ current_branch' = r.branch
           /\ pushed' = r.pushed
           /\ IF r.raised
              THEN /\ step' = "exited"
                   /\ ended_by' = "exception"
                   /\ exit_code' = ExitCode("Exception")
              ELSE IF r.ret THEN step' = "pr" /\ UNCHANGED <<ended_by, exit_code>>
              ELSE Return("git_failed")
    /\ UNCHANGED <<files, valid_files, selected_files, calls, processed_files,
                   deleted, told>>
    /\ UNCHANGED <<editorVars, hintVars, suggestion>>

\* run(), lines 160-174: removed is the set of selected files delete_file
\* managed to unlink, when the user asks for the cleanup.
CreatePullRequest(o, answer, removed) ==
    /\ step = "pr"
    /\ LET r == create_pull_request(o)
       IN  /\ git_log' = git_log \o r.log
           /\ IF r.ret
              THEN /\ told' = told \o r.told
                              \o (IF answer = "yes" THEN <<"cleaned">> ELSE <<>>)
                   /\ deleted' = IF answer = "yes" THEN removed ELSE deleted
                   /\ Return("finished")
              ELSE /\ told' = told \o r.told \o <<"pr_failed_files_on_branch">>
                   /\ UNCHANGED deleted
                   /\ Return("pr_failed")
    /\ UNCHANGED <<files, valid_files, selected_files, calls, processed_files,
                   current_branch, pushed>>
    /\ UNCHANGED <<editorVars, hintVars, suggestion>>

\* Ctrl-C outside a prompt: main() catches KeyboardInterrupt and exits.
Interrupt ==
    /\ step \in {"scan", "confirm_invalid", "select", "process", "git", "pr"}
    /\ step' = "exited"
    /\ ended_by' = "KeyboardInterrupt"
    /\ exit_code' = ExitCode("KeyboardInterrupt")
    /\ UNCHANGED <<files, valid_files, selected_files, calls, processed_files,
                   git_log, current_branch, pushed, deleted, told>>
    /\ UNCHANGED <<editorVars, hintVars, suggestion>>

NextRun ==
    \/ \E is_repo \in BOOLEAN : Construct(is_repo)
    \/ Scan
    \/ \E answer \in Answers : ConfirmInvalid(answer)
    \/ \E chosen \in SUBSET Range(valid_files) : Select(chosen)
    \/ \E o \in ProcessOutcomes, answer \in Answers : ProcessFile(o, answer)
    \/ \E answer \in Answers : PreviewChanges(answer)
    \/ \E o \in GitOutcomes : CreateGitCommit(o)
    \/ \E o \in PullRequestOutcomes, answer \in Answers,
          removed \in SUBSET Range(selected_files) :
            CreatePullRequest(o, answer, removed)
    \/ Interrupt

SpecRun == InitRun /\ [][NextRun]_vars

\* ---------------------------------------------------- claims on EasyPR

\* The extensions of the allow-list, without the dot.
AllowList ==
    { <<"p", "d", "f">>, <<"d", "o", "c", "x">>, <<"d", "o", "c">>,
      <<"p", "p", "t", "x">>, <<"p", "p", "t">>, <<"z", "i", "p">>,
      <<"r", "a", "r">>, <<"7", "z">>, <<"m", "d">>, <<"t", "x", "t">>,
      <<"x", "l", "s", "x">>, <<"x", "l", "s">>, <<"p", "n", "g">>,
      <<"j", "p", "g">>, <<"j", "p", "e", "g">> }

\* The file exists, is smaller than 100 MiB and its extension, in lower
\* case, is on the allow-list.
Acceptable(f) ==
    /\ f.exists
    /\ f.size < 104857600
    /\ \E e \in AllowList : lower(PathSuffix(f.name)) = <<".">> \o e

\* run() has validated the files it found.
Validated == valid_files # <<>> \/ ended_by = "no_valid_files"

\* C14: once the files are validated, the valid files are exactly the
\* acceptable ones (a file of exactly 104857600 bytes is not, one of
\* 104857599 bytes with an allowed extension is), every other file has a
\* non-empty reason, and only valid files are selected or reach process_file.
C14_OnlyAcceptableFilesProcessed ==
    Validated =>
        /\ Range(valid_files) = {i \in 1..Len(files) : Acceptable(files[i])}
        /\ \A i \in 1..Len(files) :
               /\ validate_file(files[i])[1] = (i \in Range(valid_files))
               /\ i \notin Range(valid_files) => validate_file(files[i])[2] # <<>>
               /\ (files[i].size = 104857600) => i \notin Range(valid_files)
        /\ Range(selected_files) \subseteq Range(valid_files)
        /\ \A k \in 1..Len(calls) : calls[k].file \in Range(valid_files)

\* C14 witness: of a file one byte below the limit and a file at the limit,
\* the first has been processed and the second was never offered.
C14_Witness ==
    /\ Len(files) = 2
    /\ files[1].size = 104857599
    /\ files[2].size = 104857600 /\ files[2].exists
    /\ valid_files = <<1>>
    /\ Len(calls) = 1 /\ calls[1].file = 1 /\ calls[1].ret

\* The process has ended.
Ended == step \in {"returned", "exited"}

\* The ends of a run that the user asked for: a prompt declined or
\* cancelled, nothing selected, Ctrl-C.
UserStops ==
    {"declined_invalid_files", "nothing_selected", "declined_to_continue",
     "declined_to_execute", "KeyboardInterrupt"}

\* The ends of a run that went through all its steps.
FullRuns == {"finished", "pr_failed"}

\* The ends of a run that a failure brought about, with a normal return.
FailureStops == {"no_files", "no_valid_files", "no_file_processed", "git_failed"}

EditFailed(c) ==
    /\ c.outcome.prompts
    /\ c.outcome.move
    /\ ~(c.outcome.load /\ c.outcome.add /\ c.outcome.save)

\* C16 as claimed: a process_file call whose document edit failed returned
\* False, did not append its file to processed_files and did not save the
\* document; the run ended after it only if the user declined to go on.
C16_EditFailureAbortsFile ==
    \A k \in 1..Len(calls) :
        EditFailed(calls[k]) =>
            /\ ~calls[k].ret
            /\ calls[k].file \notin Range(processed_files)
            /\ ~calls[k].saved
            /\ (k < Len(selected_files) /\ Len(calls) = k /\ Ended)
                   => ended_by \in UserStops

\* The GitManager calls of a create_git_commit that returned True.
CommittedAndPushed ==
    <<"get_current_branch", "create_branch", "add_files", "commit", "push">>

\* The files whose process_file call appended a record, in call order.
Recorded ==
    LET kept == SelectSeq(calls, LAMBDA c : process_file(c.outcome).appended)
    IN  [k \in 1..Len(kept) |-> kept[k].file]

\* C17: a pull request is attempted only after create_branch, add_files,
\* commit and push succeeded in that order; when it fails, the run returns
\* with status 0, nothing follows create_pr in the git calls (no checkout of
\* the original branch, no branch deletion), the new branch stays checked
\* out and pushed, processed_files still holds what process_file recorded,
\* no upload file is deleted and the user is told the files are on the branch.
C17_PullRequestFailureKeepsPush ==
    /\ (step = "pr" \/ "create_pr" \in Range(git_log)) =>
           /\ SubSeq(git_log, 1, 5) = CommittedAndPushed
           /\ pushed
           /\ current_branch = "new"
    /\ ended_by = "pr_failed" =>
           /\ step = "returned"
           /\ exit_code = 0
           /\ git_log = CommittedAndPushed \o <<"create_pr">>
           /\ pushed
           /\ current_branch = "new"
           /\ processed_files = Recorded
           /\ processed_files # <<>>
           /\ deleted = {}
           /\ told[Len(told)] = "pr_failed_files_on_branch"

\* C17 witness: the push succeeded, create_pr answered (False, message) and
\* the run has returned.
C17_Witness ==
    /\ ended_by = "pr_failed"
    /\ pushed
    /\ "changes_pushed_to_branch" \in Range(told)
    /\ Len(processed_files) = 2

\* The course document was loaded in call c: MDXEditor(mdx_path) returned.
Loaded(c) == c.outcome.prompts /\ c.outcome.move /\ c.outcome.load

\* The editor calls of a step that inserts, formats and saves.
EditAndSave == <<"load", "add_file_download", "format_content", "save">>

\* The number of save() calls among the editor calls q.
Saves(q) == Cardinality({i \in 1..Len(q) : q[i] = "save"})

\* C18 as claimed: every process_file call that loaded the document made
\* the editor calls load, add_file_download, format_content, save, in that
\* order, and so saved the document exactly once.
C18_EveryLoadedDocumentSaved ==
    \A k \in 1..Len(calls) :
        Loaded(calls[k]) => calls[k].ops = EditAndSave /\ Saves(calls[k].ops) = 1

\* C18 amended: a call that loaded the document calls save() once, as the
\* last editor call after add_file_download and the one format_content, when
\* add_file_download returned True, and does not call save() when it returned
\* False; no call saves twice or before formatting, and the document is
\* written only by a call whose insertion succeeded.
C18_SavedOnceAfterInsertion ==
    \A k \in 1..Len(calls) :
        LET c == calls[k]
        IN  /\ Saves(c.ops) <= 1
            /\ Loaded(c) /\ c.outcome.add => c.ops = EditAndSave
            /\ Loaded(c) /\ ~c.outcome.add =>
                   c.ops = <<"load", "add_file_download">> /\ ~c.saved
            /\ ~Loaded(c) => Saves(c.ops) = 0 /\ ~c.saved
            /\ c.saved => c.ops = EditAndSave /\ c.outcome.add /\ c.outcome.save

\* C18 witness: one call inserted, formatted and saved; another loaded the
\* document, failed to insert and did not save.
C18_Witness ==
    /\ Len(calls) = 2
    /\ calls[1].ops = EditAndSave
    /\ calls[1].saved
    /\ Loaded(calls[2])
    /\ ~calls[2].outcome.add
    /\ Saves(calls[2].ops) = 0

\* ------------------------------------- more claims on the editor

\* The five lines of a new section.
NewSection(h) == <<<<>>, h, <<>>, <<"---">>, <<>>>>

\* The last call was ensure_section(h) on a document without the heading h.
C19_Case == op = "ensure_section" /\ find_section(before, args[1]) = None

\* Where C19 puts the new section: the index of the first line that holds
\* '<Comments', or the length of the document when there is none.
C19_Place ==
    LET trailers == {i \in 0..(Len(before) - 1) :
                        contains(At(before, i), <<"<Comments">>)}
    IN  IF trailers = {} THEN Len(before) ELSE Min(trailers)

\* C19: when the heading h is missing, ensure_section(h) inserts the lines
\* "", h, "", "---", "" right before the first line holding '<Comments' (that
\* line then follows them), or at the end when there is no such line; the
\* index it returns is that of the line h; every other line is kept as it was.
C19_SectionInsertedBeforeTrailer ==
    C19_Case =>
        /\ lines = Slice(before, 0, C19_Place) \o NewSection(args[1])
                       \o Slice(before, C19_Place, Len(before))
        /\ ret = C19_Place + 1
        /\ At(lines, ret) = args[1]
        /\ C19_Place < Len(before) =>
               /\ At(lines, C19_Place + 5) = At(before, C19_Place)
               /\ _find_comments_line(lines) \in {C19_Place + 1, C19_Place + 5}

\* C19 witness: a section was created before a trailer line that is not the
\* first line of the document.
C19_Witness ==
    /\ C19_Case
    /\ C19_Place > 0
    /\ C19_Place < Len(before)
    /\ Len(lines) = Len(before) + 5
    /\ At(lines, ret) = args[1]

\* C19 witness of the other branch is part of the runs as well: a section
\* appended to a document without trailer.
C19_Appended ==
    /\ C19_Case
    /\ C19_Place = Len(before)
    /\ SubSeq(lines, Len(before) + 1, Len(lines)) = NewSection(args[1])

\* The document add_file_download inserts into, once the section is there,
\* and the index of the section's heading in it.
C20_Ensured == ensure_section(before, SectionTitle(ArgType))
C20_Document == C20_Ensured.lines
C20_Heading == C20_Ensured.ret

\* The lines of the entry add_file_download was called with.
C20_Block == split(FileDownloadText(ArgName, ArgPath))

\* A line that ends a section: a heading, a separator or the trailer.
IsBoundary(line) ==
    \/ startswith(strip(line), <<"##">>)
    \/ strip(line) = <<"---">>
    \/ contains(strip(line), <<"<Comments">>)

\* The index of the line that ends the target section, or the length of the
\* document when nothing ends it.
C20_SectionEnd ==
    LET ends == {i \in (C20_Heading + 1)..(Len(C20_Document) - 1) :
                    IsBoundary(At(C20_Document, i))}
    IN  IF ends = {} THEN Len(C20_Document) ELSE Min(ends)

\* The indices of the non-blank lines of the target section, heading excluded.
C20_Content ==
    {i \in (C20_Heading + 1)..(C20_SectionEnd - 1) :
        strip(At(C20_Document, i)) # <<>>}

\* The index right after the last non-blank line of the target section, the
\* heading being the last non-blank line of a section without content.
C20_AfterLastLine ==
    IF C20_Content = {} THEN C20_Heading + 1 ELSE Max(C20_Content) + 1

\* ls with the lines of block put in at index pos.
Inserted(ls, pos, block) == Slice(ls, 0, pos) \o block \o Slice(ls, pos, Len(ls))

\* C20 as claimed: add_file_download puts one blank line and then the entry
\* block right after the last non-blank line of the target section.
C20_BlankLineThenBlock ==
    op = "add_file_download" =>
        lines = Inserted(C20_Document, C20_AfterLastLine, <<<<>>>> \o C20_Block)

\* Where add_file_download inserts: right after the last content line of a
\* section that has content and is ended by a boundary line; at the boundary
\* line of a section without content; at the end of the document when no
\* boundary line follows the heading.
C20_Place ==
    IF C20_SectionEnd = Len(C20_Document) THEN Len(C20_Document)
    ELSE IF C20_Content = {} THEN C20_SectionEnd
    ELSE Max(C20_Content) + 1

\* C20 amended: add_file_download puts the entry block and then one blank
\* line at C20_Place; the block is the four lines '<FileDownload ',
\* '  name="..." ', '  path="..." ', '/>' when name and path hold no line
\* break; the inserted lines never come after the line that ends the section.
C20_BlockThenBlankLine ==
    op = "add_file_download" =>
        /\ ret = TRUE
        /\ lines = Inserted(C20_Document, C20_Place, C20_Block \o <<<<>>>>)
        /\ C20_Place > C20_Heading
        /\ C20_Place <= C20_SectionEnd
        /\ (~contains(ArgName, <<NL>>) /\ ~contains(ArgPath, <<NL>>)) =>
               C20_Block = << <<"<FileDownload", SP>>,
                              <<SP, SP, "name=", DQ>> \o ArgName \o <<DQ, SP>>,
                              <<SP, SP, "path=", DQ>> \o ArgPath \o <<DQ, SP>>,
                              <<"/>">> >>

\* C20 witness: an entry was added to a section that has a content line,
\* blank lines after it and a boundary line; the entry stands right after
\* the content line and the blank lines follow it.
C20_Witness ==
    /\ op = "add_file_download"
    /\ ~contains(ArgName, <<NL>>)
    /\ ~contains(ArgPath, <<NL>>)
    /\ C20_Content # {}
    /\ C20_SectionEnd < Len(C20_Document)
    /\ C20_Place < C20_SectionEnd
    /\ At(lines, C20_Place) = <<"<FileDownload", SP>>
    /\ At(lines, C20_Place + 4) = <<>>

\* A line that is empty or holds whitespace only.
IsBlank(line) == strip(line) = <<>>

\* The number of blank lines that stand right before the 1-based index i.
BlanksBefore(ls, i) ==
    LET starts == {k \in 1..i : \A m \in k..(i - 1) : IsBlank(ls[m])}
    IN  i - Min(starts)

\* ls without the third and later lines of each run of blank lines.
RunsOfTwo(ls) ==
    LET kept == SelectSeq([i \in 1..Len(ls) |-> i],
                          LAMBDA i : ~IsBlank(ls[i]) \/ BlanksBefore(ls, i) < 2)
    IN  [k \in 1..Len(kept) |-> ls[kept[k]]]

\* The non-blank lines of ls, in order.
NonBlank(ls) == SelectSeq(ls, LAMBDA line : ~IsBlank(line))

\* ls holds three blank lines in a row.
HasLongRun(ls) ==
    \E i \in 1..(Len(ls) - 2) :
        IsBlank(ls[i]) /\ IsBlank(ls[i + 1]) /\ IsBlank(ls[i + 2])

\* C21: after format_content no three blank lines stand in a row; each run
\* of three or more blank lines has become its first two lines, runs of one
\* or two are as they were, the non-blank lines are kept unmodified in their
\* order, and check_duplicate(p) and get_section_files(c) give what they gave
\* before the pass.
C21_BlankRunsCollapsed ==
    op = "format_content" =>
        /\ ~HasLongRun(lines)
        /\ lines = RunsOfTwo(before)
        /\ NonBlank(lines) = NonBlank(before)
        /\ \A p \in FilePaths :
               check_duplicate(lines, p) = check_duplicate(before, p)
        /\ \A c \in SectionTypes \cup ChosenTypes :
               get_section_files(lines, c) = get_section_files(before, c)

\* C21 witness: a pass dropped lines from a document that holds a section
\* with an entry path and a run of more than two blank lines.
C21_Witness ==
    /\ op = "format_content"
    /\ HasLongRun(before)
    /\ Len(lines) < Len(before)
    /\ check_duplicate(before, <<"a">>)
    /\ get_section_files(before, "qimokaoshi") = << <<"a">> >>

\* ------------------------------------- more claims on FileInfo

\* The letters that mark the version of an exam paper.
PaperLetters == {"A", "B", "C"}

\* C22 as claimed: for a file in the upload root whose name is made of a
\* course, a year and exam keywords, a paper-version letter that is part of
\* the course token is still in course_hint.
C22_LetterOfCourseSurvives ==
    (pc = "done" /\ Len(relative_path) = 1) =>
        \A c \in CourseTokens, e \in ExamWords, m \in MaterialWords,
           sep \in Separators, first \in BOOLEAN :
            name = ComposedName(c, e, m, sep, first) =>
                \A letter \in PaperLetters :
                    contains(c, <<letter>>) => contains(course_hint, <<letter>>)

\* ------------------------------------- claims on add_bulk_downloads

\* The downloads of the last add_bulk_downloads call.
ArgDownloads == args[1]

\* The number of lines of ls that hold the attribute path="p".
Occurrences(ls, p) ==
    Cardinality({i \in 1..Len(ls) :
                    contains(ls[i], <<"path=", DQ>> \o p \o <<DQ>>)})

\* The number of lines of ls that open an entry block.
Entries(ls) == Cardinality({i \in 1..Len(ls) : ls[i] = <<"<FileDownload", SP>>})

\* The paths of the downloads ds.
BatchPaths(ds) == {ds[k][2] : k \in 1..Len(ds)}

\* The document ls holds the entry block of a download of ds with the path p.
HasEntry(ls, ds, p) ==
    \E k \in 1..Len(ds) :
        /\ ds[k][2] = p
        /\ BlockAt(ls, split(FileDownloadText(ds[k][1], p))) # None

\* What C23 says of the last add_bulk_downloads call: the count returned is
\* the number of entry blocks put in; a path the document held occurs as
\* often as before and any other path of the batch occurs once, in the entry
\* of one of its downloads; the old lines are kept, and nothing changes when
\* the document held every path.
NoDuplicateEntry ==
    /\ ret = Entries(lines) - Entries(before)
    /\ IsSubsequence(before, lines)
    /\ \A p \in BatchPaths(ArgDownloads) :
           IF Occurrences(before, p) > 0
           THEN Occurrences(lines, p) = Occurrences(before, p)
           ELSE Occurrences(lines, p) = 1 /\ HasEntry(lines, ArgDownloads, p)
    /\ (\A p \in BatchPaths(ArgDownloads) : Occurrences(before, p) > 0)
           => lines = before /\ ret = 0

\* C23 as claimed: add_bulk_downloads never makes a duplicate entry, whatever
\* the downloads of the batch are.
C23_NoDuplicateEntryAnyText ==
    op = "add_bulk_downloads" => NoDuplicateEntry

\* The names and paths of the downloads ds are free of double quotes and
\* line breaks.
PlainDownloads(ds) ==
    \A k \in 1..Len(ds) : NoQuoteNoBreak(ds[k][1]) /\ NoQuoteNoBreak(ds[k][2])

\* C23 amended: the same, for batches whose names and paths hold no double
\* quote and no line break.
C23_NoDuplicateEntryPlainText ==
    (op = "add_bulk_downloads" /\ PlainDownloads(ArgDownloads)) => NoDuplicateEntry

\* C23 witness: a batch of two plain downloads with the same new path, for
\* two different sections, put in one entry and skipped the other.
C23_Witness ==
    /\ op = "add_bulk_downloads"
    /\ PlainDownloads(ArgDownloads)
    /\ Len(ArgDownloads) = 2
    /\ ArgDownloads[1][2] = ArgDownloads[2][2]
    /\ ArgDownloads[1][3] # ArgDownloads[2][3]
    /\ Occurrences(before, ArgDownloads[1][2]) = 0
    /\ Occurrences(lines, ArgDownloads[1][2]) = 1
    /\ ret = 1

\* ------------------------------------- more claims on EasyPR

\* C24 as claimed: an upload file is deleted only if its process_file call
\* copied it into the resources tree and recorded it in processed_files, and
\* only after the pull request was created and the user asked for the
\* cleanup; a file whose processing failed or was cancelled is not deleted.
C24_OnlyProcessedFilesDeleted ==
    \A f \in deleted :
        /\ f \in Range(processed_files)
        /\ \E k \in 1..Len(calls) :
               calls[k].file = f /\ calls[k].copied /\ calls[k].ret
        /\ ended_by = "finished"
        /\ "pr_created" \in Range(told)
        /\ "cleaned" \in Range(told)

\* The number of records of processed_files for the file f.
Records(f) == Cardinality({j \in 1..Len(processed_files) : processed_files[j] = f})

\* C25 as claimed: after any sequence of process_file calls, a file that
\* move_file copied into the resources tree has exactly one record in
\* processed_files, a file with a record had its entry inserted and saved in
\* its course document, and a call that returned False added no record.
C25_CopiedIffRecordedAndSaved ==
    \A k \in 1..Len(calls) :
        /\ calls[k].copied => Records(calls[k].file) = 1
        /\ Records(calls[k].file) > 0 =>
               /\ calls[k].outcome.add
               /\ calls[k].saved
        /\ ~calls[k].ret => Records(calls[k].file) = 0

\* The last n GitManager calls of the run.
LastCalls(n) ==
    IF Len(git_log) < n THEN <<>>
    ELSE SubSeq(git_log, Len(git_log) - n + 1, Len(git_log))

\* The branch was undone: the original branch checked out, the new deleted.
RolledBack == LastCalls(2) = <<"restore_branch", "delete_branch">>

\* C26 as claimed: whenever create_git_commit returned False the repository
\* is on the original branch, and, unless create_branch itself failed, the
\* last two git calls were restore_branch and delete_branch.
C26_EveryFailureRollsBack ==
    ended_by = "git_failed" =>
        /\ current_branch = "original"
        /\ "add_files" \in Range(git_log) => RolledBack

\* C26 amended: when create_git_commit returned False, nothing was pushed
\* and one of these happened: an exception before any branch was made or a
\* failed create_branch, which leave the original branch checked out and
\* call neither restore_branch nor delete_branch; a failed add_files or
\* commit, followed by restore_branch and delete_branch as the last calls,
\* which leave the original branch checked out; a failed push, after which
\* the new branch with its commit stays checked out and is not deleted.
C26_RollbackUnlessPushFailed ==
    ended_by = "git_failed" =>
        /\ ~pushed
        /\ \/ /\ git_log \in { <<"get_current_branch">>,
                               <<"get_current_branch", "create_branch">> }
              /\ current_branch = "original"
           \/ /\ git_log \in
                     { <<"get_current_branch", "create_branch", "add_files",
                         "restore_branch", "delete_branch">>,
                       <<"get_current_branch", "create_branch", "add_files",
                         "commit", "restore_branch", "delete_branch">> }
              /\ RolledBack
              /\ current_branch = "original"
           \/ /\ git_log = CommittedAndPushed
              /\ ~RolledBack
              /\ current_branch = "new"

\* C26 witness: the commit failed and the branch was undone.
C26_Witness ==
    /\ ended_by = "git_failed"
    /\ "commit" \in Range(git_log)
    /\ RolledBack
    /\ current_branch = "original"

\* The push failed: the run ended on the new branch, which was kept.
C26_PushFailed ==
    /\ ended_by = "git_failed"
    /\ git_log = CommittedAndPushed
    /\ current_branch = "new"

====
